---------------------------- MODULE Spec2Model ----------------------------
(***************************************************************************)
(* Model of the webhook_bridge plugin execution bridge:                    *)
(*   webhook_bridge/filesystem.py   plugin discovery                       *)
(*   webhook_bridge/plugin.py       BasePlugin dispatch and load_plugin    *)
(*   python_executor/server.py      WebhookExecutorServicer                *)
(* Python strings are sequences of one-character strings, dicts are        *)
(* sequences of <<key, value>> pairs in insertion order.                   *)
(***************************************************************************)
EXTENDS Integers, Sequences, FiniteSets, TLC

(***************************************************************************)
(* Text                                                                    *)
(***************************************************************************)

\* the string literals of python_executor/server.py
Lit ==
    [not_found |->
        <<"n", "o", "t", " ", "f", "o", "u", "n", "d">>,
     permission |->
        <<"p", "e", "r", "m", "i", "s", "s", "i", "o", "n">>,
     access |->
        <<"a", "c", "c", "e", "s", "s">>,
     timeout |->
        <<"t", "i", "m", "e", "o", "u", "t">>,
     plugin_q |->
        <<"P", "l", "u", "g", "i", "n", " ", "'">>,
     nf_tail |->
        <<"'", " ", "n", "o", "t", " ", "f", "o", "u", "n", "d", ".", " ", "A", "v", "a", "i", "l", "a", "b", "l", "e", " ", "p", "l", "u", "g", "i", "n", "s", ":", " ">>,
     result |->
        <<"r", "e", "s", "u", "l", "t">>,
     py_exec |->
        <<"p", "y", "t", "h", "o", "n", "-", "e", "x", "e", "c", "u", "t", "o", "r">>,
     plugin_count |->
        <<"p", "l", "u", "g", "i", "n", "_", "c", "o", "u", "n", "t">>,
     service |->
        <<"s", "e", "r", "v", "i", "c", "e">>,
     total_executions |->
        <<"t", "o", "t", "a", "l", "_", "e", "x", "e", "c", "u", "t", "i", "o", "n", "s">>,
     successful_executions |->
        <<"s", "u", "c", "c", "e", "s", "s", "f", "u", "l", "_", "e", "x", "e", "c", "u", "t", "i", "o", "n", "s">>,
     failed_executions |->
        <<"f", "a", "i", "l", "e", "d", "_", "e", "x", "e", "c", "u", "t", "i", "o", "n", "s">>,
     success_rate |->
        <<"s", "u", "c", "c", "e", "s", "s", "_", "r", "a", "t", "e">>,
     avg_execution_time |->
        <<"a", "v", "g", "_", "e", "x", "e", "c", "u", "t", "i", "o", "n", "_", "t", "i", "m", "e">>,
     plugin_test |->
        <<"p", "l", "u", "g", "i", "n", "_", "t", "e", "s", "t">>,
     cache_size |->
        <<"c", "a", "c", "h", "e", "_", "s", "i", "z", "e">>,
     healthy_head |->
        <<"P", "y", "t", "h", "o", "n", " ", "e", "x", "e", "c", "u", "t", "o", "r", " ", "i", "s", " ", "h", "e", "a", "l", "t", "h", "y", ".", " ">>,
     healthy_tail |->
        <<" ", "p", "l", "u", "g", "i", "n", "s", " ", "a", "v", "a", "i", "l", "a", "b", "l", "e", ".">>,
     no_plugins |->
        <<"N", "o", " ", "p", "l", "u", "g", "i", "n", "s", " ", "f", "o", "u", "n", "d">>,
     loading_issues |->
        <<"P", "l", "u", "g", "i", "n", " ", "l", "o", "a", "d", "i", "n", "g", " ", "i", "s", "s", "u", "e", "s", " ", "d", "e", "t", "e", "c", "t", "e", "d", ":", " ">>,
     low_rate |->
        <<"L", "o", "w", " ", "s", "u", "c", "c", "e", "s", "s", " ", "r", "a", "t", "e", ":", " ">>,
     failed |->
        <<"f", "a", "i", "l", "e", "d">>,
     failed_colon |->
        <<"f", "a", "i", "l", "e", "d", ":", " ">>,
     ok |->
        <<"o", "k">>,
     unknown |->
        <<"u", "n", "k", "n", "o", "w", "n">>,
     health_failed |->
        <<"H", "e", "a", "l", "t", "h", " ", "c", "h", "e", "c", "k", " ", "f", "a", "i", "l", "e", "d", ":", " ">>,
     error |->
        <<"e", "r", "r", "o", "r">>]

\* the string literals of webhook_bridge/plugin.py
PluginLit ==
    [result |->
        <<"r", "e", "s", "u", "l", "t">>,
     GET |->
        <<"G", "E", "T">>,
     POST |->
        <<"P", "O", "S", "T">>,
     PUT |->
        <<"P", "U", "T">>,
     DELETE |->
        <<"D", "E", "L", "E", "T", "E">>,
     additional |->
        <<"T", "h", "i", "s", " ", "i", "s", " ", "s", "o", "m", "e", " ", "a", "d", "d", "i", "t", "i", "o", "n", "a", "l", " ", "i", "n", "f", "o", "r", "m", "a", "t", "i", "o", "n", ".">>,
     input_data |->
        <<"i", "n", "p", "u", "t", "_", "d", "a", "t", "a">>,
     additional_info |->
        <<"a", "d", "d", "i", "t", "i", "o", "n", "a", "l", "_", "i", "n", "f", "o">>,
     http_method |->
        <<"h", "t", "t", "p", "_", "m", "e", "t", "h", "o", "d">>,
     no_class |->
        <<"N", "o", " ", "P", "l", "u", "g", "i", "n", " ", "c", "l", "a", "s", "s", " ", "f", "o", "u", "n", "d", " ", "i", "n", " ">>,
     no_class_tail |->
        <<".", " ", "M", "a", "k", "e", " ", "s", "u", "r", "e", " ", "t", "h", "e", " ", "m", "o", "d", "u", "l", "e", " ", "d", "e", "f", "i", "n", "e", "s", " ", "a", " ", "c", "l", "a", "s", "s", " ", "t", "h", "a", "t", " ", "i", "n", "h", "e", "r", "i", "t", "s", " ", "f", "r", "o", "m", " ", "B", "a", "s", "e", "P", "l", "u", "g", "i", "n", ".">>]

\* the string literals of webhook_bridge/filesystem.py
FsLit ==
    [dot_py |->
        <<".", "p", "y">>,
     init |->
        <<"_", "_", "i", "n", "i", "t", "_", "_">>,
     dunder |->
        <<"_", "_">>,
     dot |->
        <<".">>,
     slash |->
        <<"/">>]

\* texts the Python runtime and the protobuf library produce: str(None), JSON null,
\* and the messages of FileNotFoundError, KeyError('msg'), SyntaxError, RecursionError
\* and UnicodeEncodeError
PyText ==
    [eacces |->
        <<"[", "E", "r", "r", "n", "o", " ", "1", "3", "]", " ", "P", "e", "r", "m", "i", "s", "s", "i", "o", "n", " ", "d", "e", "n", "i", "e", "d", ":", " ", "'">>,
     None |->
        <<"N", "o", "n", "e">>,
     null |->
        <<"n", "u", "l", "l">>,
     enoent |->
        <<"[", "E", "r", "r", "n", "o", " ", "2", "]", " ", "N", "o", " ", "s", "u", "c", "h", " ", "f", "i", "l", "e", " ", "o", "r", " ", "d", "i", "r", "e", "c", "t", "o", "r", "y", ":", " ", "'">>,
     keyerror_msg |->
        <<"'", "m", "s", "g", "'">>,
     syntax |->
        <<"i", "n", "v", "a", "l", "i", "d", " ", "s", "y", "n", "t", "a", "x", " ", "(", "<", "u", "n", "k", "n", "o", "w", "n", ">", ",", " ", "l", "i", "n", "e", " ", "1", ")">>,
     recursion |->
        <<"m", "a", "x", "i", "m", "u", "m", " ", "r", "e", "c", "u", "r", "s", "i", "o", "n", " ", "d", "e", "p", "t", "h", " ", "e", "x", "c", "e", "e", "d", "e", "d">>,
     utf8_head |->
        <<"'", "u", "t", "f", "-", "8", "'", " ", "c", "o", "d", "e", "c", " ", "c", "a", "n", "'", "t", " ", "e", "n", "c", "o", "d", "e", " ", "c", "h", "a", "r", "a", "c", "t", "e", "r", " ", "'", "\\", "u", "d", "8", "0", "0", "'", " ", "i", "n", " ", "p", "o", "s", "i", "t", "i", "o", "n", " ">>,
     abstract_head |->
        <<"C", "a", "n", "'", "t", " ", "i", "n", "s", "t", "a", "n", "t", "i", "a", "t", "e", " ", "a", "b", "s", "t", "r", "a", "c", "t", " ", "c", "l", "a", "s", "s", " ">>,
     abstract_tail |->
        <<" ", "w", "i", "t", "h", " ", "a", "b", "s", "t", "r", "a", "c", "t", " ", "m", "e", "t", "h", "o", "d", " ", "h", "a", "n", "d", "l", "e">>,
     utf8_tail |->
        <<":", " ", "s", "u", "r", "r", "o", "g", "a", "t", "e", "s", " ", "n", "o", "t", " ", "a", "l", "l", "o", "w", "e", "d">>,
     utf8 |->
        <<"'", "u", "t", "f", "-", "8", "'", " ", "c", "o", "d", "e", "c", " ", "c", "a", "n", "'", "t", " ", "e", "n", "c", "o", "d", "e", " ", "c", "h", "a", "r", "a", "c", "t", "e", "r", " ", "'", "\\", "u", "d", "8", "0", "0", "'", " ", "i", "n", " ", "p", "o", "s", "i", "t", "i", "o", "n", " ", "0", ":", " ", "s", "u", "r", "r", "o", "g", "a", "t", "e", "s", " ", "n", "o", "t", " ", "a", "l", "l", "o", "w", "e", "d">>]

\* names and values of the sample plugin sources
Sample ==
    [doc |->
        <<"\n", " ", " ", " ", " ", "E", "c", "h", "o", " ", "p", "l", "u", "g", "i", "n", ".", "\n", "\n", " ", " ", " ", " ", "R", "e", "t", "u", "r", "n", "s", " ", "x", " ", "a", "n", "d", " ", "y", ".", "\n", " ", " ", " ", " ">>,
     msg |->
        <<"m", "s", "g">>,
     via |->
        <<"v", "i", "a">>,
     x |->
        <<"x">>,
     y |->
        <<"y">>,
     Plugin |->
        <<"P", "l", "u", "g", "i", "n">>,
     BasePlugin |->
        <<"B", "a", "s", "e", "P", "l", "u", "g", "i", "n">>,
     helper |->
        <<"h", "e", "l", "p", "e", "r">>,
     First |->
        <<"F", "i", "r", "s", "t">>,
     Second |->
        <<"S", "e", "c", "o", "n", "d">>,
     exit_code |->
        <<"1">>,
     xy_json |->
        <<"{", "\"", "x", "\"", ":", " ", "1", ",", " ", "\"", "y", "\"", ":", " ", "[", "1", ",", " ", "2", "]", "}">>]

\* F(v), with v evaluated once however often F uses its argument
Bind(v, F(_)) ==
    CHOOSE y \in {F(x) : x \in {v}} : TRUE

\* str.lower() on one character
LowerChar(c) ==
    CASE c = "A" -> "a" [] c = "B" -> "b" [] c = "C" -> "c" [] c = "D" -> "d"
      [] c = "E" -> "e" [] c = "F" -> "f" [] c = "G" -> "g" [] c = "H" -> "h"
      [] c = "I" -> "i" [] c = "J" -> "j" [] c = "K" -> "k" [] c = "L" -> "l"
      [] c = "M" -> "m" [] c = "N" -> "n" [] c = "O" -> "o" [] c = "P" -> "p"
      [] c = "Q" -> "q" [] c = "R" -> "r" [] c = "S" -> "s" [] c = "T" -> "t"
      [] c = "U" -> "u" [] c = "V" -> "v" [] c = "W" -> "w" [] c = "X" -> "x"
      [] c = "Y" -> "y" [] c = "Z" -> "z" [] OTHER -> c

\* str.upper() on one character
UpperChar(c) ==
    CASE c = "a" -> "A" [] c = "b" -> "B" [] c = "c" -> "C" [] c = "d" -> "D"
      [] c = "e" -> "E" [] c = "f" -> "F" [] c = "g" -> "G" [] c = "h" -> "H"
      [] c = "i" -> "I" [] c = "j" -> "J" [] c = "k" -> "K" [] c = "l" -> "L"
      [] c = "m" -> "M" [] c = "n" -> "N" [] c = "o" -> "O" [] c = "p" -> "P"
      [] c = "q" -> "Q" [] c = "r" -> "R" [] c = "s" -> "S" [] c = "t" -> "T"
      [] c = "u" -> "U" [] c = "v" -> "V" [] c = "w" -> "W" [] c = "x" -> "X"
      [] c = "y" -> "Y" [] c = "z" -> "Z" [] OTHER -> c

Lower(s) ==
    [i \in 1..Len(s) |-> LowerChar(s[i])]

Upper(s) ==
    [i \in 1..Len(s) |-> UpperChar(s[i])]

\* Python's `sub in s` on strings
Contains(s, sub) ==
    \E i \in 1..(Len(s) - Len(sub) + 1) : SubSeq(s, i, i + Len(sub) - 1) = sub

StartsWith(s, pre) ==
    Len(s) >= Len(pre) /\ SubSeq(s, 1, Len(pre)) = pre

EndsWith(s, suf) ==
    Len(s) >= Len(suf) /\ SubSeq(s, Len(s) - Len(suf) + 1, Len(s)) = suf

\* the least index at which sub occurs in s, 0 when it does not (str.find + 1)
Find(s, sub) ==
    IF Contains(s, sub)
    THEN CHOOSE i \in 1..(Len(s) - Len(sub) + 1) :
            /\ SubSeq(s, i, i + Len(sub) - 1) = sub
            /\ \A j \in 1..(i - 1) : SubSeq(s, j, j + Len(sub) - 1) # sub
    ELSE 0

RECURSIVE Concat(_)
\* "".join(parts)
Concat(parts) ==
    IF parts = <<>> THEN <<>> ELSE Head(parts) \o Concat(Tail(parts))

RECURSIVE JoinWith(_, _)
\* sep.join(parts)
JoinWith(sep, parts) ==
    IF parts = <<>> THEN <<>>
    ELSE IF Len(parts) = 1 THEN parts[1]
    ELSE parts[1] \o sep \o JoinWith(sep, Tail(parts))

Digit(d) ==
    CASE d = 0 -> "0" [] d = 1 -> "1" [] d = 2 -> "2" [] d = 3 -> "3"
      [] d = 4 -> "4" [] d = 5 -> "5" [] d = 6 -> "6" [] d = 7 -> "7"
      [] d = 8 -> "8" [] d = 9 -> "9"

RECURSIVE NatStr(_)
NatStr(n) ==
    IF n < 10 THEN <<Digit(n)>> ELSE NatStr(n \div 10) \o <<Digit(n % 10)>>

\* str(n) for an int
IntStr(n) ==
    IF n < 0 THEN <<"-">> \o NatStr(0 - n) ELSE NatStr(n)

(***************************************************************************)
(* Dicts: sequences of <<key, value>> pairs, keys unique, insertion order  *)
(***************************************************************************)
DictKeys(d) ==
    [i \in 1..Len(d) |-> d[i][1]]

DictKeySet(d) ==
    {d[i][1] : i \in 1..Len(d)}

DictHas(d, k) ==
    \E i \in 1..Len(d) : d[i][1] = k

DictGet(d, k) ==
    d[CHOOSE i \in 1..Len(d) : d[i][1] = k][2]

\* d[k] = v: an existing key keeps its position, a new key is appended
DictSet(d, k, v) ==
    IF DictHas(d, k)
    THEN [i \in 1..Len(d) |-> IF d[i][1] = k THEN <<k, v>> ELSE d[i]]
    ELSE Append(d, <<k, v>>)

RECURSIVE DictUpdate(_, _)
\* d.update(e)
DictUpdate(d, e) ==
    IF e = <<>> THEN d
    ELSE DictUpdate(DictSet(d, e[1][1], e[1][2]), Tail(e))

(***************************************************************************)
(* Python values a plugin can return, and their text forms                 *)
(***************************************************************************)
VInt(n) == [t |-> "int", v |-> n]

VStr(s) == [t |-> "str", v |-> s]

VList(xs) == [t |-> "list", v |-> xs]

VDict(d) == [t |-> "dict", v |-> d]

VNone == [t |-> "none", v |-> <<>>]

\* A lone surrogate code point: a Python str may hold it, UTF-8 cannot encode it.
Surrogate == "U+D800"

\* bool(value): what `self.run() or {}` tests
Truthy(val) ==
    CASE val.t = "int" -> val.v # 0
      [] val.t = "none" -> FALSE
      [] OTHER -> val.v # <<>>

ReprChars(s) ==
    <<"'">> \o s \o <<"'">>

RECURSIVE py_repr(_)
\* repr(value)
py_repr(val) ==
    CASE val.t = "int" -> IntStr(val.v)
      [] val.t = "str" -> ReprChars(val.v)
      [] val.t = "none" -> PyText.None
      [] val.t = "list" ->
            <<"[">> \o JoinWith(<<",", " ">>, [i \in 1..Len(val.v) |-> py_repr(val.v[i])])
                    \o <<"]">>
      [] val.t = "dict" ->
            <<"{">> \o JoinWith(<<",", " ">>,
                          [i \in 1..Len(val.v) |->
                              ReprChars(val.v[i][1]) \o <<":", " ">> \o py_repr(val.v[i][2])])
                    \o <<"}">>

\* str(value)
py_str(val) ==
    IF val.t = "str" THEN val.v ELSE py_repr(val)

\* json.dumps escapes (ensure_ascii=True): quote, backslash, non-ASCII
JsonEscape(c) ==
    CASE c = "\"" -> <<"\\", "\"">>
      [] c = "\\" -> <<"\\", "\\">>
      [] c = Surrogate -> <<"\\", "u", "d", "8", "0", "0">>
      [] OTHER -> <<c>>

JsonString(s) ==
    <<"\"">> \o Concat([i \in 1..Len(s) |-> JsonEscape(s[i])]) \o <<"\"">>

RECURSIVE json_dumps(_)
\* json.dumps(value) with the default separators ", " and ": "
json_dumps(val) ==
    CASE val.t = "int" -> IntStr(val.v)
      [] val.t = "str" -> JsonString(val.v)
      [] val.t = "none" -> PyText.null
      [] val.t = "list" ->
            <<"[">> \o JoinWith(<<",", " ">>, [i \in 1..Len(val.v) |-> json_dumps(val.v[i])])
                    \o <<"]">>
      [] val.t = "dict" ->
            <<"{">> \o JoinWith(<<",", " ">>,
                          [i \in 1..Len(val.v) |->
                              JsonString(val.v[i][1]) \o <<":", " ">> \o json_dumps(val.v[i][2])])
                    \o <<"}">>

IsDigit(c) ==
    c \in {"0", "1", "2", "3", "4", "5", "6", "7", "8", "9"}

DigitVal(c) ==
    CHOOSE d \in 0..9 : Digit(d) = c

RECURSIVE SkipWs(_, _)
SkipWs(s, i) ==
    IF i <= Len(s) /\ s[i] = " " THEN SkipWs(s, i + 1) ELSE i

RECURSIVE ParseNat(_, _, _)
ParseNat(s, i, acc) ==
    IF i <= Len(s) /\ IsDigit(s[i])
    THEN ParseNat(s, i + 1, acc * 10 + DigitVal(s[i]))
    ELSE [val |-> VInt(acc), next |-> i]

RECURSIVE ParseChars(_, _, _)
\* the characters of a JSON string from position i (after the opening quote)
ParseChars(s, i, acc) ==
    IF s[i] = "\"" THEN [val |-> acc, next |-> i + 1]
    ELSE IF s[i] = "\\"
         THEN IF s[i + 1] = "u"
              THEN ParseChars(s, i + 6, Append(acc, Surrogate))
              ELSE ParseChars(s, i + 2, Append(acc, s[i + 1]))
         ELSE ParseChars(s, i + 1, Append(acc, s[i]))

RECURSIVE ParseValue(_, _)
RECURSIVE ParseList(_, _, _)
RECURSIVE ParseDict(_, _, _)
ParseValue(s, i0) ==
    LET i == SkipWs(s, i0) IN
    CASE s[i] = "[" -> ParseList(s, i + 1, <<>>)
      [] s[i] = "{" -> ParseDict(s, i + 1, <<>>)
      [] s[i] = "\"" ->
            LET r == ParseChars(s, i + 1, <<>>) IN [val |-> VStr(r.val), next |-> r.next]
      [] s[i] = "n" -> [val |-> VNone, next |-> i + 4]
      [] s[i] = "-" ->
            LET r == ParseNat(s, i + 1, 0) IN [val |-> VInt(0 - r.val.v), next |-> r.next]
      [] OTHER -> ParseNat(s, i, 0)

ParseList(s, i0, acc) ==
    LET i == SkipWs(s, i0) IN
    IF s[i] = "]" THEN [val |-> VList(acc), next |-> i + 1]
    ELSE IF s[i] = "," THEN ParseList(s, i + 1, acc)
    ELSE LET r == ParseValue(s, i) IN ParseList(s, r.next, Append(acc, r.val))

ParseDict(s, i0, acc) ==
    LET i == SkipWs(s, i0) IN
    IF s[i] = "}" THEN [val |-> VDict(acc), next |-> i + 1]
    ELSE IF s[i] = "," THEN ParseDict(s, i + 1, acc)
    ELSE LET k == ParseChars(s, i + 1, <<>>)
             c == SkipWs(s, k.next)
             r == ParseValue(s, c + 1)
         IN  ParseDict(s, r.next, Append(acc, <<k.val, r.val>>))

\* json.loads(text)
json_loads(s) ==
    ParseValue(s, 1).val

(***************************************************************************)
(* Plugin classes.  A class is described by the attributes it overrides    *)
(* (a function from attribute name to the body that runs) and what each    *)
(* body does with the instance's data.                                     *)
(***************************************************************************)
\* the attribute names of BasePlugin
Attr ==
    [run |-> <<"r", "u", "n">>,
     handle |-> <<"h", "a", "n", "d", "l", "e">>,
     get |-> <<"g", "e", "t">>,
     post |-> <<"p", "o", "s", "t">>,
     put |-> <<"p", "u", "t">>,
     delete |-> <<"d", "e", "l", "e", "t", "e">>,
     init |-> <<"_", "_", "i", "n", "i", "t", "_", "_">>]

\* How deep Python lets calls nest before it raises RecursionError.
RecursionLimit == 3

NoText == <<>>

\* what a call into plugin code ends with; base: the error raised is not an
\* Exception (SystemExit), so no `except Exception` clause catches it; hangs: the
\* call never returns
Returned(val, called) ==
    [raised |-> FALSE, base |-> FALSE, hangs |-> FALSE, text |-> NoText, val |-> val,
     called |-> called]

Raised(text, called) ==
    [raised |-> TRUE, base |-> FALSE, hangs |-> FALSE, text |-> text, val |-> VNone,
     called |-> called]

\* sys.exit() in plugin code
Exited(called) ==
    [raised |-> TRUE, base |-> TRUE, hangs |-> FALSE, text |-> NoText, val |-> VNone,
     called |-> called]

\* `while True: pass` in plugin code
Hung(called) ==
    [raised |-> FALSE, base |-> FALSE, hangs |-> TRUE, text |-> NoText, val |-> VNone,
     called |-> called]

Overrides(cls, attr) ==
    attr \in DOMAIN cls.methods

\* What the body of an overriding method does; `called` lists the overriding
\* bodies entered so far, in call order.
Body(tag, attr, inst, called) ==
    LET now == Append(called, attr) IN
    CASE tag = "ret_xy" ->
            Returned(VDict(<< <<Sample.x, VInt(1)>>, <<Sample.y, VList(<<VInt(1), VInt(2)>>)>> >>), now)
      [] tag = "ret_via" ->
            Returned(VDict(<< <<Sample.via, VStr(attr)>> >>), now)
      [] tag = "ret_none" ->
            Returned(VNone, now)
      [] tag = "ret_input" ->
            Returned(VDict(<< <<PluginLit.input_data,
                                VDict([i \in 1..Len(inst.data) |->
                                          <<inst.data[i][1], VStr(inst.data[i][2])>>])>> >>), now)
      [] tag = "ret_surrogate" ->
            Returned(VStr(<<Surrogate>>), now)
      [] tag = "exit" ->
            Exited(now)
      [] tag = "hang" ->
            Hung(now)
      [] tag = "raise_msg" ->
            IF DictHas(inst.data, Sample.msg)
            THEN Raised(DictGet(inst.data, Sample.msg), now)
            ELSE Raised(PyText.keyerror_msg, now)

\* plugin_class(data, http_method=...): BasePlugin is an ABC whose handle is an
\* abstractmethod, so a class that does not define handle cannot be
\* instantiated (TypeError); then BasePlugin.__init__ (or the class's own)
Construct(cls, data, http_method) ==
    IF ~Overrides(cls, Attr.handle)
    THEN [ok |-> FALSE,
          text |-> PyText.abstract_head \o cls.name \o PyText.abstract_tail,
          inst |-> [data |-> data, http_method |-> NoText]]
    ELSE IF Overrides(cls, Attr.init)
    THEN [ok |-> FALSE,
          text |-> IF DictHas(data, Sample.msg) THEN DictGet(data, Sample.msg) ELSE PyText.keyerror_msg,
          inst |-> [data |-> data, http_method |-> NoText]]
    ELSE [ok |-> TRUE, text |-> NoText,
          inst |-> [data |-> data, http_method |-> Upper(http_method)]]

\* self.handle()
CallHandle(cls, inst, called) ==
    Body(cls.methods[Attr.handle], Attr.handle, inst, called)

\* self.get() / self.post() / self.put() / self.delete(): the override when the
\* class has one, else BasePlugin's default, which calls self.handle()
CallMethod(cls, attr, inst, called) ==
    IF Overrides(cls, attr)
    THEN Body(cls.methods[attr], attr, inst, called)
    ELSE CallHandle(cls, inst, called)

\* a dispatch that forgets the PUT capability
DispatchWithoutPut(cls, inst, called) ==
    IF inst.http_method = PluginLit.GET THEN CallMethod(cls, Attr.get, inst, called)
    ELSE IF inst.http_method = PluginLit.POST THEN CallMethod(cls, Attr.post, inst, called)
    ELSE IF inst.http_method = PluginLit.DELETE THEN CallMethod(cls, Attr.delete, inst, called)
    ELSE CallHandle(cls, inst, called)

\* BasePlugin.run below its legacy test
Dispatch(cls, inst, called) ==
    IF inst.http_method = PluginLit.GET THEN CallMethod(cls, Attr.get, inst, called)
    ELSE IF inst.http_method = PluginLit.POST THEN CallMethod(cls, Attr.post, inst, called)
    ELSE IF inst.http_method = PluginLit.PUT THEN CallMethod(cls, Attr.put, inst, called)
    ELSE IF inst.http_method = PluginLit.DELETE THEN CallMethod(cls, Attr.delete, inst, called)
    ELSE CallHandle(cls, inst, called)

RECURSIVE SelfRun(_, _, _, _)
RECURSIVE BaseRun(_, _, _, _)
\* self.run(): the class's run when it overrides it, else BasePlugin.run
SelfRun(cls, inst, called, depth) ==
    IF depth >= RecursionLimit THEN Raised(PyText.recursion, called)
    ELSE IF Overrides(cls, Attr.run)
    THEN IF cls.methods[Attr.run] = "super_run"
         THEN BaseRun(cls, inst, Append(called, Attr.run), depth + 1)
         ELSE Body(cls.methods[Attr.run], Attr.run, inst, called)
    ELSE BaseRun(cls, inst, called, depth + 1)

\* BasePlugin._legacy_run: super().__getattribute__("run") is the instance's run
LegacyRun(cls, inst, called, depth) ==
    SelfRun(cls, inst, called, depth + 1)

\* BasePlugin.run
BaseRun(cls, inst, called, depth) ==
    IF depth >= RecursionLimit THEN Raised(PyText.recursion, called)
    ELSE IF Overrides(cls, Attr.run)
    THEN LegacyRun(cls, inst, called, depth)
    ELSE Dispatch(cls, inst, called)

\* BasePlugin.execute
PluginExecute(cls, inst) ==
    LET r == SelfRun(cls, inst, <<>>, 0) IN
    IF r.raised \/ r.hangs THEN r
    ELSE Returned(
            VDict(<< <<PluginLit.input_data,
                       VDict([i \in 1..Len(inst.data) |->
                                 <<inst.data[i][1], VStr(inst.data[i][2])>>])>>,
                     <<PluginLit.additional_info, VStr(PluginLit.additional)>>,
                     <<PluginLit.http_method, VStr(inst.http_method)>>,
                     <<PluginLit.result, IF Truthy(r.val) THEN r.val ELSE VDict(<<>>)>> >>),
            r.called)

(***************************************************************************)
(* Plugin source files.  A file's content is one of a catalogue of sources; *)
(* a source is the error its top-level code raises (if any) and the         *)
(* module's top-level statements in the order they run: each binds a name   *)
(* of the module to the base class, to a plugin class or to something else. *)
(***************************************************************************)
NoClass == [name |-> NoText, methods |-> <<>>, doc |-> NoText]

\* `from webhook_bridge.plugin import BasePlugin`: the base class itself
DefBase == [kind |-> "base", name |-> Sample.BasePlugin, cls |-> NoClass]

\* `name = None`, `def name(): ...`: a top-level name bound to something that is
\* not a subclass of BasePlugin
DefOtherNamed(name) == [kind |-> "other", name |-> name, cls |-> NoClass]

DefOther == DefOtherNamed(Sample.helper)

\* `class <name>(BasePlugin):` with the docstring doc and the methods it defines
DefClass(name, methods, doc) ==
    [kind |-> "plugin", name |-> name,
     cls |-> [name |-> name, methods |-> methods, doc |-> doc]]

\* `class Plugin(BasePlugin):`
DefPluginDoc(methods, doc) ==
    DefClass(Sample.Plugin, methods, doc)

\* a plugin class without a docstring: its __doc__ is None
DefPlugin(methods) ==
    DefPluginDoc(methods, NoText)

\* a module whose top-level code raises: os_error, the file cannot be read and
\* the error text ends with its path; base, the error is a BaseException that is
\* no Exception (SystemExit, KeyboardInterrupt)
Broken(exec_error, os_error, base) ==
    [exec_error |-> exec_error, os_error |-> os_error, base |-> base, defs |-> <<>>]

Module(defs) == [exec_error |-> NoText, os_error |-> FALSE, base |-> FALSE, defs |-> defs]

SourceOf(id) ==
    CASE id = "handle_only" ->
            Module(<<DefBase, DefPlugin((Attr.handle :> "ret_xy"))>>)
      [] id = "get_put" ->
            Module(<<DefBase, DefPlugin((Attr.handle :> "ret_via") @@ (Attr.get :> "ret_via")
                                            @@ (Attr.put :> "ret_via"))>>)
      [] id = "legacy_run" ->
            Module(<<DefBase, DefPlugin((Attr.handle :> "ret_via") @@ (Attr.run :> "ret_via")
                                            @@ (Attr.get :> "ret_via"))>>)
      [] id = "raiser" ->
            Module(<<DefBase, DefPlugin((Attr.handle :> "raise_msg"))>>)
      [] id = "ctor_raiser" ->
            Module(<<DefBase, DefPlugin((Attr.handle :> "ret_via") @@ (Attr.init :> "raise_msg"))>>)
      [] id = "none" ->
            Module(<<DefBase, DefPlugin((Attr.handle :> "ret_none"))>>)
      [] id = "surrogate" ->
            Module(<<DefBase, DefPlugin((Attr.handle :> "ret_surrogate"))>>)
      [] id = "super_run" ->
            Module(<<DefBase, DefPlugin((Attr.handle :> "ret_via") @@ (Attr.run :> "super_run"))>>)
      [] id = "no_class" ->
            Module(<<DefBase, DefOther>>)
      [] id = "documented" ->
            Module(<<DefBase, DefPluginDoc((Attr.handle :> "ret_xy") @@ (Attr.post :> "ret_via"),
                                           Sample.doc)>>)
      [] id = "exit" ->
            Module(<<DefBase, DefPlugin((Attr.handle :> "exit"))>>)
      [] id = "hang" ->
            Module(<<DefBase, DefPlugin((Attr.handle :> "hang"))>>)
      [] id = "run_only" ->
            Module(<<DefBase, DefPlugin((Attr.run :> "ret_input"))>>)
      [] id = "two_classes" ->
            Module(<<DefBase, DefClass(Sample.First, (Attr.handle :> "ret_xy"), NoText),
                     DefClass(Sample.Second, (Attr.handle :> "ret_via"), NoText)>>)
      [] id = "rebound" ->
            Module(<<DefBase, DefOtherNamed(Sample.Second),
                     DefClass(Sample.First, (Attr.handle :> "ret_xy"), NoText),
                     DefClass(Sample.Second, (Attr.handle :> "ret_via"), NoText)>>)
      [] id = "syntax_error" ->
            Broken(PyText.syntax, FALSE, FALSE)
      [] id = "unreadable" ->
            Broken(PyText.eacces, TRUE, FALSE)
      [] id = "script" ->
            Broken(Sample.exit_code, FALSE, TRUE)
      [] id = "surrogate_error" ->
            Broken(<<Surrogate>>, FALSE, FALSE)

IsPluginClass(def) ==
    def.kind = "plugin"

RECURSIVE Namespace(_, _, _)
\* module.__dict__ once the statements from the i-th on have run too: a dict from
\* each name to the statement that bound it last
Namespace(defs, i, ns) ==
    IF i > Len(defs) THEN ns
    ELSE Namespace(defs, i + 1, DictSet(ns, defs[i].name, i))

\* the loop `for _, obj in module.__dict__.items()` of load_plugin: the statement
\* that defined the class it breaks on, 0 when it ends without one
FindPluginClass(defs, ns) ==
    LET hits == {k \in 1..Len(ns) : IsPluginClass(defs[ns[k][2]])}
    IN  IF hits = {} THEN 0 ELSE ns[CHOOSE k \in hits : \A j \in hits : k <= j][2]

\* load_plugin(pyfile) on a readable file holding source `id`: the index of the
\* class it returns among the module's statements, or the text of its error
load_plugin(pyfile, id) ==
    LET src == SourceOf(id)
        found == FindPluginClass(src.defs, Namespace(src.defs, 1, <<>>))
    IN  IF src.exec_error # NoText
        THEN [ok |-> FALSE, base |-> src.base,
              text |-> IF src.os_error THEN src.exec_error \o pyfile \o <<"'">>
                       ELSE src.exec_error,
              def |-> 0]
        ELSE IF found = 0
        THEN [ok |-> FALSE, base |-> FALSE,
              text |-> PluginLit.no_class \o pyfile \o PluginLit.no_class_tail, def |-> 0]
        ELSE [ok |-> TRUE, base |-> FALSE, text |-> NoText, def |-> found]

\* the class a loaded class object denotes
ClassOf(obj) ==
    SourceOf(obj.src).defs[obj.def].cls

(***************************************************************************)
(* The file system and plugin discovery                                    *)
(***************************************************************************)
DefaultDir ==
    <<"/", "d">>
ExtraDir ==
    <<"/", "x">>
MissingDir ==
    <<"/", "n", "o", "d", "i", "r">>
EnvPlugins ==
    <<"/", "e">>
F_a ==
    <<"a", ".", "p", "y">>
F_b ==
    <<"b", ".", "p", "y">>
N_a ==
    <<"a">>
N_b ==
    <<"b">>
N_zz ==
    <<"z", "z">>

\* os.pathsep
PathSep == ":"

\* os.path.join(dir, filename)
PathJoin(dir, filename) ==
    dir \o <<"/">> \o filename

\* the directories that exist
Directories == {DefaultDir, ExtraDir}

\* further names a file of a plugin directory can have: the package initializer,
\* another name that starts with two underscores, a hidden file, a name that
\* holds ".py" twice, and a file c.py of the subdirectory sub
F_init ==
    <<"_", "_", "i", "n", "i", "t", "_", "_", ".", "p", "y">>
F_main ==
    <<"_", "_", "m", "a", "i", "n", "_", "_", ".", "p", "y">>
F_hidden ==
    <<".", "h", ".", "p", "y">>
F_double ==
    <<"c", ".", "p", "y", ".", "p", "y">>
F_sub_c ==
    <<"s", "u", "b", "/", "c", ".", "p", "y">>

ScanNames == {F_a, F_init, F_main, F_hidden, F_double, F_sub_c}

\* the file names plugin files are written under
Filenames == {F_a, F_b} \cup ScanNames

Paths == {PathJoin(d, f) : d \in Directories, f \in Filenames}

\* WebhookExecutorServicer.plugin_dirs, as given to the constructor
PluginDirs == <<MissingDir, PathJoin(DefaultDir, F_a), ExtraDir>>

Absent == [src |-> "", mtime |-> 0]

\* os.path.isdir(path)
IsDir(path) ==
    path \in Directories

\* the entry of its directory a file is found under: its name, or the name of
\* the subdirectory that holds it
DirEntry(f) ==
    IF Contains(f, FsLit.slash) THEN SubSeq(f, 1, Find(f, FsLit.slash) - 1) ELSE f

\* the names os.listdir(dir) returns, as a set
Listing(fs, dir) ==
    {DirEntry(f) : f \in {g \in Filenames : fs[PathJoin(dir, g)] # Absent}}

\* the orders in which a directory listing can come back
Orderings(S) ==
    {o \in [1..Cardinality(S) -> S] : \A i, j \in 1..Cardinality(S) : i # j => o[i] # o[j]}

RECURSIVE Split(_, _)
\* s.split(sep) for a one-character separator
Split(s, sep) ==
    IF \E i \in 1..Len(s) : s[i] = sep
    THEN LET i == CHOOSE k \in 1..Len(s) : s[k] = sep /\ \A j \in 1..(k - 1) : s[j] # sep
         IN  <<SubSeq(s, 1, i - 1)>> \o Split(SubSeq(s, i + 1, Len(s)), sep)
    ELSE <<s>>

\* if extra_path: append it unless it is already in paths
AddExtraPath(paths, extra_path) ==
    IF extra_path # NoText /\ ~(\E i \in 1..Len(paths) : paths[i] = extra_path)
    THEN Append(paths, extra_path)
    ELSE paths

\* get_plugin_paths with the extra directory appended whatever the list holds
get_plugin_paths_always(env, extra_path) ==
    LET paths == IF env # NoText THEN Split(env, PathSep) ELSE <<>>
        with_default == <<DefaultDir>> \o paths
    IN  IF extra_path # NoText THEN Append(with_default, extra_path) ELSE with_default

\* get_plugin_paths(extra_path), env the value of WEBHOOK_BRIDGE_SERVER_PLUGINS
\* ("" when unset): the environment's directories, the default directory
\* inserted at index 0, then the extra directory
get_plugin_paths(env, extra_path) ==
    LET paths == IF env # NoText THEN Split(env, PathSep) ELSE <<>>
        with_default == <<DefaultDir>> \o paths
    IN  AddExtraPath(with_default, extra_path)

\* os.path.basename(plugin_path).split(".py")[0]
GlobPluginName(filename) ==
    IF Contains(filename, FsLit.dot_py)
    THEN SubSeq(filename, 1, Find(filename, FsLit.dot_py) - 1)
    ELSE filename

\* glob's match of an entry against "*.py": the pattern does not start with a
\* dot, so hidden entries are never matched
GlobMatches(f) ==
    EndsWith(f, FsLit.dot_py) /\ ~StartsWith(f, FsLit.dot)

RECURSIVE ScanGlob(_, _, _)
\* the inner loop of get_plugins over glob.glob(dir/*.py), in listing order
ScanGlob(plugins, dir, listing) ==
    IF listing = <<>> THEN plugins
    ELSE LET f == Head(listing)
             name == GlobPluginName(f)
             next == IF GlobMatches(f) /\ name # FsLit.init /\ ~DictHas(plugins, name)
                     THEN Append(plugins, <<name, PathJoin(dir, f)>>)
                     ELSE plugins
         IN  ScanGlob(next, dir, Tail(listing))

RECURSIVE ScanPaths(_, _, _)
\* the outer loop of get_plugins; order[dir] is the listing order of dir
ScanPaths(plugins, paths, order) ==
    IF paths = <<>> THEN plugins
    ELSE IF ~IsDir(Head(paths)) THEN ScanPaths(plugins, Tail(paths), order)
    ELSE ScanPaths(ScanGlob(plugins, Head(paths), order[Head(paths)]), Tail(paths), order)

\* get_plugins(extra_path) on its first call with that argument;
\* functools.lru_cache keeps the dict it returns
get_plugins(env, extra_path, order) ==
    ScanPaths(<<>>, get_plugin_paths(env, extra_path), order)

RECURSIVE DiscoverLoop(_, _, _)
DiscoverLoop(plugins, dir, listing) ==
    IF listing = <<>> THEN plugins
    ELSE LET f == Head(listing)
             next == IF EndsWith(f, FsLit.dot_py) /\ ~StartsWith(f, FsLit.dunder)
                     THEN DictSet(plugins, SubSeq(f, 1, Len(f) - 3), PathJoin(dir, f))
                     ELSE plugins
         IN  DiscoverLoop(next, dir, Tail(listing))

\* WebhookExecutorServicer._discover_plugins_in_dir; a path that does not exist
\* and a path that is no directory both return the empty dict
DiscoverPluginsInDir(dir, order) ==
    IF ~IsDir(dir) THEN <<>> ELSE DiscoverLoop(<<>>, dir, order[dir])

RECURSIVE ExtraDirsLoopStopping(_, _, _)
\* a loop that gives up at the first plugin_dirs entry that is no directory
ExtraDirsLoopStopping(plugins, dirs, order) ==
    IF dirs = <<>> \/ ~IsDir(Head(dirs)) THEN plugins
    ELSE ExtraDirsLoopStopping(DictUpdate(plugins, DiscoverPluginsInDir(Head(dirs), order)),
                               Tail(dirs), order)

RECURSIVE ExtraDirsLoop(_, _, _)
\* the loop of _get_plugins_with_extra_dirs over self.plugin_dirs
ExtraDirsLoop(plugins, dirs, order) ==
    IF dirs = <<>> THEN plugins
    ELSE ExtraDirsLoop(DictUpdate(plugins, DiscoverPluginsInDir(Head(dirs), order)),
                       Tail(dirs), order)

\* WebhookExecutorServicer._get_plugins_with_extra_dirs: `cached` is the dict
\* get_plugins() returns, which the loop updates in place
GetPluginsWithExtraDirs(cached, order) ==
    ExtraDirsLoop(cached, PluginDirs, order)

\* every way the directories can list the files of fs
ListingOrders(fs) ==
    {o \in [Directories -> UNION {Orderings(Listing(fs, d)) : d \in Directories}] :
        \A d \in Directories : o[d] \in Orderings(Listing(fs, d))}

(***************************************************************************)
(* WebhookExecutorServicer: state                                           *)
(***************************************************************************)
VARIABLES
    files,      \* the file system: path -> [src, mtime], or Absent
    lru,        \* the dict get_plugins() returned first, kept by lru_cache
    cache,      \* self.plugin_cache: <<path, mtime>> -> class object
    classes,    \* the class objects created so far; an object is its index
    stats,      \* self.execution_stats
    resp,       \* the response the last call returned
    last,       \* the last call: its request and what it did
    returned,   \* how many ExecutePlugin calls returned 200 / another status
    writes,     \* how many times the environment has changed a file
    failed,     \* history: the keys <<path, mtime>> at which a load has failed
    seen,       \* history: path -> the mtime at which the latest call got a handler
    pc,         \* worker -> where its ExecutePlugin call stands ("idle": no call)
    loc,        \* worker -> the local variables of its call
    loads       \* history: the _load_plugin_with_cache calls that returned a class

vars == <<files, lru, cache, classes, stats, resp, last, returned, writes, failed, seen,
         pc, loc, loads>>

\* bounds of the model
MaxExec == 2

MaxWrites == 2

MaxMtime == 2

Mtimes == 1..MaxMtime

\* how many worker threads of the server's pool the model runs
MaxWorkers == 2

Workers == 1..MaxWorkers

(***************************************************************************)
(* WebhookExecutorServicer: helpers                                         *)
(***************************************************************************)
CallRecord(path, mtime, hit, loader, ok, obj) ==
    [path |-> path, mtime |-> mtime, hit |-> hit, loader |-> loader, ok |-> ok, obj |-> obj]

\* a store that files the class under the key of the next modification time
CacheStoreOtherKey(cacheMap, key, obj) ==
    (<<key[1], key[2] + 1>> :> obj) @@ cacheMap

\* a store that drops the entries of the path's earlier generations
CacheStoreEvict(cacheMap, key, obj) ==
    [k \in {key} \cup {j \in DOMAIN cacheMap : j[1] # key[1]} |->
        IF k = key THEN obj ELSE cacheMap[k]]

\* self.plugin_cache[cache_key] = plugin_class
CacheStore(cacheMap, key, obj) ==
    (key :> obj) @@ cacheMap

\* a lookup that never finds the key
CacheHitNever(cacheMap, key) ==
    FALSE

\* cache_key in self.plugin_cache
CacheHit(cacheMap, key) ==
    key \in DOMAIN cacheMap

\* a variant of LoadWithCache that trusts any entry cached for the path
LoadWithCacheAnyMtime(fs, cacheMap, heap, path) ==
    IF fs[path] = Absent
    THEN [raised |-> TRUE, base |-> FALSE, text |-> PyText.enoent \o path \o <<"'">>, obj |-> 0,
          cache |-> cacheMap, classes |-> heap,
          call |-> CallRecord(path, 0, FALSE, 0, FALSE, 0)]
    ELSE LET mtime == fs[path].mtime
             key == <<path, mtime>>
             old == {k \in DOMAIN cacheMap : k[1] = path}
         IN  IF old # {}
             THEN LET k == CHOOSE k \in old : TRUE IN
                  [raised |-> FALSE, base |-> FALSE, text |-> NoText, obj |-> cacheMap[k],
                   cache |-> cacheMap, classes |-> heap,
                   call |-> CallRecord(path, mtime, TRUE, 0, TRUE, cacheMap[k])]
             ELSE LET r == load_plugin(path, fs[path].src)
                      obj == Len(heap) + 1
                  IN  IF r.ok
                      THEN [raised |-> FALSE, base |-> FALSE, text |-> NoText, obj |-> obj,
                            cache |-> (key :> obj) @@ cacheMap,
                            classes |-> Append(heap, [src |-> fs[path].src, def |-> r.def]),
                            call |-> CallRecord(path, mtime, FALSE, 1, TRUE, obj)]
                      ELSE [raised |-> TRUE, base |-> r.base, text |-> r.text, obj |-> 0,
                            cache |-> cacheMap, classes |-> heap,
                            call |-> CallRecord(path, mtime, FALSE, 1, FALSE, 0)]

\* a variant of LoadWithCache that remembers a failed load under its key (as
\* object 0) and replays the failure on the next call
LoadWithCacheKeepsFailure(fs, cacheMap, heap, path) ==
    IF fs[path] = Absent
    THEN [raised |-> TRUE, base |-> FALSE, text |-> PyText.enoent \o path \o <<"'">>, obj |-> 0,
          cache |-> cacheMap, classes |-> heap,
          call |-> CallRecord(path, 0, FALSE, 0, FALSE, 0)]
    ELSE LET mtime == fs[path].mtime
             key == <<path, mtime>>
         IN  IF key \in DOMAIN cacheMap
             THEN [raised |-> cacheMap[key] = 0, base |-> FALSE, text |-> NoText, obj |-> cacheMap[key],
                   cache |-> cacheMap, classes |-> heap,
                   call |-> CallRecord(path, mtime, TRUE, 0, cacheMap[key] # 0, cacheMap[key])]
             ELSE LET r == load_plugin(path, fs[path].src)
                      obj == Len(heap) + 1
                  IN  IF r.ok
                      THEN [raised |-> FALSE, base |-> FALSE, text |-> NoText, obj |-> obj,
                            cache |-> (key :> obj) @@ cacheMap,
                            classes |-> Append(heap, [src |-> fs[path].src, def |-> r.def]),
                            call |-> CallRecord(path, mtime, FALSE, 1, TRUE, obj)]
                      ELSE [raised |-> TRUE, base |-> r.base, text |-> r.text, obj |-> 0,
                            cache |-> (key :> 0) @@ cacheMap, classes |-> heap,
                            call |-> CallRecord(path, mtime, FALSE, 1, FALSE, 0)]

\* WebhookExecutorServicer._load_plugin_with_cache(plugin_path), run in one go
LoadWithCache(fs, cacheMap, heap, path) ==
    IF fs[path] = Absent
    THEN [raised |-> TRUE, base |-> FALSE, text |-> PyText.enoent \o path \o <<"'">>, obj |-> 0,
          cache |-> cacheMap, classes |-> heap,
          call |-> CallRecord(path, 0, FALSE, 0, FALSE, 0)]
    ELSE LET mtime == fs[path].mtime
             key == <<path, mtime>>
         IN  IF CacheHit(cacheMap, key)
             THEN [raised |-> FALSE, base |-> FALSE, text |-> NoText, obj |-> cacheMap[key],
                   cache |-> cacheMap, classes |-> heap,
                   call |-> CallRecord(path, mtime, TRUE, 0, TRUE, cacheMap[key])]
             ELSE LET r == load_plugin(path, fs[path].src)
                      obj == Len(heap) + 1
                  IN  IF r.ok
                      THEN [raised |-> FALSE, base |-> FALSE, text |-> NoText, obj |-> obj,
                            cache |-> CacheStore(cacheMap, key, obj),
                            classes |-> Append(heap, [src |-> fs[path].src, def |-> r.def]),
                            call |-> CallRecord(path, mtime, FALSE, 1, TRUE, obj)]
                      ELSE [raised |-> TRUE, base |-> r.base, text |-> r.text, obj |-> 0,
                            cache |-> cacheMap, classes |-> heap,
                            call |-> CallRecord(path, mtime, FALSE, 1, FALSE, 0)]

\* WebhookExecutorServicer._execute_plugin_safely
ExecutePluginSafely(cls, data, http_method) ==
    LET c == Construct(cls, data, http_method) IN
    IF c.ok THEN PluginExecute(cls, c.inst) ELSE Raised(c.text, <<>>)

\* a formatting that stringifies mappings and sequences too
FormatPluginResultAllStr(result) ==
    IF result.t = "dict"
    THEN [i \in 1..Len(result.v) |-> <<result.v[i][1], py_str(result.v[i][2])>>]
    ELSE << <<Lit.result, py_str(result)>> >>

\* WebhookExecutorServicer._format_plugin_result
FormatPluginResult(result) ==
    IF result.t = "dict"
    THEN [i \in 1..Len(result.v) |->
            <<result.v[i][1],
              IF result.v[i][2].t \in {"dict", "list"}
              THEN json_dumps(result.v[i][2])
              ELSE py_str(result.v[i][2])>>]
    ELSE << <<Lit.result, py_str(result)>> >>

\* WebhookExecutorServicer._update_execution_stats, run in one go
UpdateStats(st, success, execution_time) ==
    [total_executions |-> st.total_executions + 1,
     total_execution_time |-> st.total_execution_time + execution_time,
     successful_executions |-> st.successful_executions + (IF success THEN 1 ELSE 0),
     failed_executions |-> st.failed_executions + (IF success THEN 0 ELSE 1)]

\* a status choice that misses the "access" hint
StatusForLowerNoAccess(lowered) ==
    IF Contains(lowered, Lit.not_found) THEN 404
    ELSE IF Contains(lowered, Lit.permission) THEN 403
    ELSE IF Contains(lowered, Lit.timeout) THEN 408
    ELSE 500

\* a status choice that tests the hints in the opposite order
StatusForLowerTimeoutFirst(lowered) ==
    IF Contains(lowered, Lit.timeout) THEN 408
    ELSE IF Contains(lowered, Lit.permission) \/ Contains(lowered, Lit.access) THEN 403
    ELSE IF Contains(lowered, Lit.not_found) THEN 404
    ELSE 500

\* the status ExecutePlugin's except branch picks for error_msg.lower()
StatusForLower(lowered) ==
    IF Contains(lowered, Lit.not_found) THEN 404
    ELSE IF Contains(lowered, Lit.permission) \/ Contains(lowered, Lit.access) THEN 403
    ELSE IF Contains(lowered, Lit.timeout) THEN 408
    ELSE 500

StatusFor(error_msg) ==
    StatusForLower(Lower(error_msg))

\* a protobuf string field takes only text that UTF-8 can encode
Encodable(s) ==
    \A i \in 1..Len(s) : s[i] # Surrogate

\* str(e) of the UnicodeEncodeError a message constructor raises on the text s
Utf8ErrorText(s) ==
    PyText.utf8_head
        \o NatStr((CHOOSE i \in 1..Len(s) : s[i] = Surrogate /\ \A j \in 1..(i - 1) : s[j] # Surrogate) - 1)
        \o PyText.utf8_tail

\* webhook_pb2.ExecutePluginResponse(...) raises on a string it cannot encode
ResponseBuilds(data, error) ==
    /\ Encodable(error)
    /\ \A i \in 1..Len(data) : Encodable(data[i][1]) /\ Encodable(data[i][2])

Response(status_code, message, data, error, execution_time) ==
    [status_code |-> status_code, message |-> message, data |-> data, error |-> error,
     execution_time |-> execution_time]

\* no response: the call has not returned one
NoResponse == Response(0, "", <<>>, NoText, 0)

\* a 404 error text that leaves the known names out
NotFoundMessageNoNames(plugin_name, plugins) ==
    Lit.plugin_q \o plugin_name \o Lit.nf_tail \o <<"[", "]">>

\* the text of the 404 error
NotFoundMessage(plugin_name, plugins) ==
    Lit.plugin_q \o plugin_name \o Lit.nf_tail
        \o py_repr(VList([i \in 1..Len(plugins) |-> VStr(plugins[i][1])]))

(***************************************************************************)
(* Requests                                                                 *)
(***************************************************************************)
M_get ==
    <<"g", "e", "t">>
M_Put ==
    <<"P", "u", "t">>
M_PATCH ==
    <<"P", "A", "T", "C", "H">>
E_not_found ==
    <<"F", "i", "l", "e", " ", "N", "o", "t", " ", "F", "o", "u", "n", "d">>
E_permission ==
    <<"P", "e", "r", "m", "i", "s", "s", "i", "o", "n", " ", "d", "e", "n", "i", "e", "d">>
E_access ==
    <<"n", "o", " ", "A", "C", "C", "E", "S", "S">>
E_timeout ==
    <<"T", "i", "m", "e", "o", "u", "t", " ", "a", "f", "t", "e", "r", " ", "5", "s">>
E_boom ==
    <<"b", "o", "o", "m">>
E_access_nf ==
    <<"a", "c", "c", "e", "s", "s", " ", "k", "e", "y", " ", "n", "o", "t", " ", "f", "o", "u", "n", "d">>
E_timeout_perm ==
    <<"t", "i", "m", "e", "o", "u", "t", " ", "a", "s", "k", "i", "n", "g", " ", "p", "e", "r", "m", "i", "s", "s", "i", "o", "n">>

\* request.data: a map<string, string>
Payload(msg) ==
    << <<Sample.msg, msg>> >>

ErrorTexts ==
    {E_not_found, E_permission, E_access, E_timeout, E_boom, E_access_nf, E_timeout_perm}

\* seconds the clock can advance during one call
Durations == {0, 1}

(***************************************************************************)
(* WebhookExecutorServicer.ExecutePlugin                                    *)
(***************************************************************************)
NoCall == <<>>

Outcome(plugins, cacheMap, heap, st, response, calls, called, step) ==
    [lru |-> plugins, cache |-> cacheMap, classes |-> heap, stats |-> st, resp |-> response,
     calls |-> calls, called |-> called, step |-> step]

\* the call ends with an error instead of a response
Escaped(plugins, cacheMap, heap, st, calls, called) ==
    Outcome(plugins, cacheMap, heap, st, NoResponse, calls, called, "escaped")

\* the except branch of ExecutePlugin; building its response raises when the
\* error text cannot be encoded
Failed(plugins, cacheMap, heap, st, error_msg, dt, calls, called, step) ==
    IF ResponseBuilds(<<>>, error_msg)
    THEN Outcome(plugins, cacheMap, heap, UpdateStats(st, FALSE, dt),
                 Response(StatusFor(error_msg), "Plugin execution failed", <<>>, error_msg, dt),
                 calls, called, step)
    ELSE Escaped(plugins, cacheMap, heap, UpdateStats(st, FALSE, dt), calls, called)

\* ExecutePlugin from the statistics update of the success path on: building the
\* 200 response can still raise, into the except branch
Succeed(plugins, lc, r, result_data, st, dt) ==
    IF ResponseBuilds(result_data, NoText)
    THEN Outcome(plugins, lc.cache, lc.classes, UpdateStats(st, TRUE, dt),
                 Response(200, "success", result_data, NoText, dt),
                 <<lc.call>>, r.called, "succeeded")
    ELSE Failed(plugins, lc.cache, lc.classes, UpdateStats(st, TRUE, dt), PyText.utf8, dt,
                <<lc.call>>, r.called, "response_failed")

\* ExecutePlugin after _execute_plugin_safely returned or raised r
AfterRun(plugins, lc, r, st, dt) ==
    IF r.hangs
    THEN Outcome(plugins, lc.cache, lc.classes, st, NoResponse, <<lc.call>>, r.called, "hung")
    ELSE IF r.raised /\ r.base
    THEN Escaped(plugins, lc.cache, lc.classes, st, <<lc.call>>, r.called)
    ELSE IF r.raised
    THEN Failed(plugins, lc.cache, lc.classes, st, r.text, dt,
                <<lc.call>>, r.called, "execution_failed")
    ELSE Succeed(plugins, lc, r, FormatPluginResult(r.val), st, dt)

\* ExecutePlugin after _load_plugin_with_cache returned or raised lc
AfterLoad(plugins, lc, st, http_method, data, dt) ==
    IF lc.raised /\ lc.base
    THEN Escaped(plugins, lc.cache, lc.classes, st, <<lc.call>>, <<>>)
    ELSE IF lc.raised
    THEN Failed(plugins, lc.cache, lc.classes, st, lc.text, dt,
                <<lc.call>>, <<>>, "load_failed")
    ELSE AfterRun(plugins, lc,
                  ExecutePluginSafely(ClassOf(lc.classes[lc.obj]), data, http_method), st, dt)

\* ExecutePlugin after _get_plugins_with_extra_dirs returned plugins
AfterDiscovery(fs, plugins, cacheMap, heap, st, plugin_name, http_method, data, dt) ==
    IF ~DictHas(plugins, plugin_name)
    THEN Outcome(plugins, cacheMap, heap, UpdateStats(st, FALSE, dt),
                 Response(404, "Plugin not found", <<>>,
                          NotFoundMessage(plugin_name, plugins), dt),
                 NoCall, <<>>, "not_found")
    ELSE AfterLoad(plugins, LoadWithCache(fs, cacheMap, heap, DictGet(plugins, plugin_name)),
                   st, http_method, data, dt)

\* what one ExecutePlugin call does to the service's state, and what it returns;
\* dt: seconds since start_time when the clock is read, order: listing orders
ExecutePluginResult(fs, cached, cacheMap, heap, st, plugin_name, http_method, data, dt, order) ==
    AfterDiscovery(fs, GetPluginsWithExtraDirs(cached, order), cacheMap, heap, st,
                   plugin_name, http_method, data, dt)

\* the service takes over what a call did
Took(o, op, plugin_name, http_method, data) ==
    /\ lru' = o.lru
    /\ cache' = o.cache
    /\ classes' = o.classes
    /\ stats' = o.stats
    /\ resp' = o.resp
    /\ last' = [op |-> op, plugin_name |-> plugin_name,
                http_method |-> http_method, data |-> data,
                calls |-> o.calls, called |-> o.called, step |-> o.step]
    /\ failed' = failed \cup {<<o.calls[i].path, o.calls[i].mtime>> :
                                i \in {j \in 1..Len(o.calls) :
                                          o.calls[j].loader = 1 /\ ~o.calls[j].ok}}
    /\ seen' = [p \in Paths |->
                  IF \E i \in 1..Len(o.calls) : o.calls[i].path = p /\ o.calls[i].ok
                  THEN o.calls[CHOOSE i \in 1..Len(o.calls) : o.calls[i].path = p].mtime
                  ELSE seen[p]]

\* a call whose plugin never returns does not end, so it is no step
ExecutePlugin(plugin_name, http_method, data, dt, order) ==
    /\ Took(ExecutePluginResult(files, lru, cache, classes, stats,
                                plugin_name, http_method, data, dt, order),
            "ExecutePlugin", plugin_name, http_method, data)
    /\ last'.step # "hung"
    /\ returned' = IF resp'.status_code = 200
                   THEN [returned EXCEPT !.ok = @ + 1]
                   ELSE [returned EXCEPT !.other = @ + 1]
    /\ UNCHANGED <<files, writes, pc, loc, loads>>

(***************************************************************************)
(* WebhookExecutorServicer.HealthCheck                                      *)
(***************************************************************************)

RECURSIVE Pow10(_)
Pow10(k) ==
    IF k = 0 THEN 1 ELSE 10 * Pow10(k - 1)

RECURSIVE ZeroPad(_, _)
ZeroPad(s, width) ==
    IF Len(s) >= width THEN s ELSE ZeroPad(<<"0">> \o s, width)

\* the nearest integer to n / d, ties to even, for n >= 0 and d > 0
RoundDiv(n, d) ==
    IF 2 * (n % d) > d \/ (2 * (n % d) = d /\ (n \div d) % 2 = 1)
    THEN (n \div d) + 1
    ELSE n \div d

\* format(n / d, ".<k>f") for n >= 0 and d > 0
FormatScaled(q, k) ==
    IntStr(q \div Pow10(k)) \o <<".">> \o ZeroPad(IntStr(q % Pow10(k)), k)

FormatFixed(n, d, k) ==
    FormatScaled(RoundDiv(n * Pow10(k), d), k)

\* f"{success_rate:.<k>f}" where success_rate = successful / total * 100, or 0.0
SuccessRateText(st, k) ==
    IF st.total_executions > 0
    THEN FormatFixed(st.successful_executions * 100, st.total_executions, k)
    ELSE FormatFixed(0, 1, k)

\* f"{avg_execution_time:.3f}"
AvgTimeText(st) ==
    IF st.total_executions > 0
    THEN FormatFixed(st.total_execution_time, st.total_executions, 3)
    ELSE FormatFixed(0, 1, 3)

\* success_rate < 80
RateBelow80(st) ==
    IF st.total_executions > 0
    THEN st.successful_executions * 100 < 80 * st.total_executions
    ELSE TRUE

HealthDetails(plugins, st, plugin_test_status, cacheMap) ==
    << <<Lit.plugin_count, IntStr(Len(plugins))>>,
       <<Lit.service, Lit.py_exec>>,
       <<Lit.total_executions, IntStr(st.total_executions)>>,
       <<Lit.successful_executions, IntStr(st.successful_executions)>>,
       <<Lit.failed_executions, IntStr(st.failed_executions)>>,
       <<Lit.success_rate, SuccessRateText(st, 2) \o <<"%">> >>,
       <<Lit.avg_execution_time, AvgTimeText(st) \o <<"s">> >>,
       <<Lit.plugin_test, plugin_test_status>>,
       <<Lit.cache_size, IntStr(Cardinality(DOMAIN cacheMap))>> >>

HealthResponse(status, message, details) ==
    [status |-> status, message |-> message, details |-> details]

\* the except branch of HealthCheck, entered with the exception text e
Unhealthy(e) ==
    HealthResponse("unhealthy", Lit.health_failed \o e, << <<Lit.error, e>> >>)

\* webhook_pb2.HealthCheckResponse(status=..., message=..., details=...) inside the
\* try block: a text it cannot encode raises into the except branch
HealthBuild(status, message, details) ==
    IF ~Encodable(message) THEN Unhealthy(Utf8ErrorText(message))
    ELSE IF \E i \in 1..Len(details) : ~Encodable(details[i][2])
    THEN Unhealthy(Utf8ErrorText(
            details[CHOOSE i \in 1..Len(details) :
                        /\ ~Encodable(details[i][2])
                        /\ \A j \in 1..(i - 1) : Encodable(details[j][2])][2]))
    ELSE HealthResponse(status, message, details)

\* a verdict that takes ten executions for enough
HealthVerdictFromTen(plugins, st, plugin_test_status, cacheMap) ==
    IF Len(plugins) = 0
    THEN HealthBuild("degraded", Lit.no_plugins,
                     HealthDetails(plugins, st, plugin_test_status, cacheMap))
    ELSE IF StartsWith(plugin_test_status, Lit.failed)
    THEN HealthBuild("degraded", Lit.loading_issues \o plugin_test_status,
                     HealthDetails(plugins, st, plugin_test_status, cacheMap))
    ELSE IF st.total_executions >= 10 /\ RateBelow80(st)
    THEN HealthBuild("degraded", Lit.low_rate \o SuccessRateText(st, 1) \o <<"%">>,
                     HealthDetails(plugins, st, plugin_test_status, cacheMap))
    ELSE HealthBuild("healthy", Lit.healthy_head \o IntStr(Len(plugins)) \o Lit.healthy_tail,
                     HealthDetails(plugins, st, plugin_test_status, cacheMap))

\* HealthCheck from `details = {...}` on
HealthVerdict(plugins, st, plugin_test_status, cacheMap) ==
    IF Len(plugins) = 0
    THEN HealthBuild("degraded", Lit.no_plugins,
                     HealthDetails(plugins, st, plugin_test_status, cacheMap))
    ELSE IF StartsWith(plugin_test_status, Lit.failed)
    THEN HealthBuild("degraded", Lit.loading_issues \o plugin_test_status,
                     HealthDetails(plugins, st, plugin_test_status, cacheMap))
    ELSE IF st.total_executions > 10 /\ RateBelow80(st)
    THEN HealthBuild("degraded", Lit.low_rate \o SuccessRateText(st, 1) \o <<"%">>,
                     HealthDetails(plugins, st, plugin_test_status, cacheMap))
    ELSE HealthBuild("healthy", Lit.healthy_head \o IntStr(Len(plugins)) \o Lit.healthy_tail,
                     HealthDetails(plugins, st, plugin_test_status, cacheMap))

\* HealthCheck after the canary load returned or raised lc: a BaseException the
\* load raises passes both `except Exception` clauses and leaves the call
AfterCanary(plugins, lc, st) ==
    IF lc.raised /\ lc.base
    THEN Escaped(plugins, lc.cache, lc.classes, st, <<lc.call>>, <<>>)
    ELSE Outcome(plugins, lc.cache, lc.classes, st,
                 HealthVerdict(plugins, st,
                               IF lc.raised THEN Lit.failed_colon \o lc.text ELSE Lit.ok,
                               lc.cache),
                 <<lc.call>>, <<>>, "")

\* HealthCheck after _get_plugins_with_extra_dirs returned plugins
HealthAfterDiscovery(fs, plugins, cacheMap, heap, st) ==
    IF Len(plugins) = 0
    THEN Outcome(plugins, cacheMap, heap, st,
                 HealthVerdict(plugins, st, Lit.unknown, cacheMap), NoCall, <<>>, "")
    ELSE Bind(LoadWithCache(fs, cacheMap, heap, plugins[1][2]),
              LAMBDA lc : AfterCanary(plugins, lc, st))

HealthCheckResult(fs, cached, cacheMap, heap, st, order) ==
    Bind(GetPluginsWithExtraDirs(cached, order),
         LAMBDA plugins : HealthAfterDiscovery(fs, plugins, cacheMap, heap, st))

HealthCheck(order) ==
    /\ \E o \in {HealthCheckResult(files, lru, cache, classes, stats, order)} :
          Took(o, "HealthCheck", NoText, NoText, <<>>)
    /\ UNCHANGED <<files, writes, returned, pc, loc, loads>>

(***************************************************************************)
(* WebhookExecutorServicer.ListPlugins and GetPluginInfo                    *)
(***************************************************************************)
\* the string literals of ListPlugins, GetPluginInfo and their helpers; epoch:
\* date, hour and minute of the model's modification times in ISO format
InfoLit ==
    [failed_to_load |->
        <<"F", "a", "i", "l", "e", "d", " ", "t", "o", " ", "l", "o", "a", "d", ":", " ">>,
     plugin_class |->
        <<"P", "l", "u", "g", "i", "n", " ", "c", "l", "a", "s", "s", ":", " ">>,
     triple_quote |->
        <<"\"", "\"", "\"">>,
     epoch |->
        <<"1", "9", "7", "0", "-", "0", "1", "-", "0", "1", "T", "0", "0", ":", "0", "0", ":">>]

\* the characters str.strip() removes
IsSpace(c) ==
    c \in {" ", "\n", "\t"}

RECURSIVE LStrip(_)
LStrip(s) ==
    IF s # <<>> /\ IsSpace(Head(s)) THEN LStrip(Tail(s)) ELSE s

RECURSIVE RStrip(_)
RStrip(s) ==
    IF s # <<>> /\ IsSpace(s[Len(s)]) THEN RStrip(SubSeq(s, 1, Len(s) - 1)) ELSE s

\* s.strip()
Strip(s) ==
    RStrip(LStrip(s))

\* the characters of the model's texts in code point order
CodePoints ==
    <<"\t", "\n", " ", "'", ".", "/", "0", "1", "2", "3", "4", "5", "6", "7", "8", "9", ":",
      "A", "B", "C", "D", "E", "F", "G", "H", "I", "J", "K", "L", "M", "N", "O", "P", "Q", "R",
      "S", "T", "U", "V", "W", "X", "Y", "Z", "_", "a", "b", "c", "d", "e", "f", "g", "h", "i",
      "j", "k", "l", "m", "n", "o", "p", "q", "r", "s", "t", "u", "v", "w", "x", "y", "z">>

\* ord(c)
Ord(c) ==
    CHOOSE i \in 1..Len(CodePoints) : CodePoints[i] = c

RECURSIVE StrLess(_, _)
\* s < t on str
StrLess(s, t) ==
    IF t = <<>> THEN FALSE
    ELSE IF s = <<>> THEN TRUE
    ELSE IF Head(s) = Head(t) THEN StrLess(Tail(s), Tail(t))
    ELSE Ord(Head(s)) < Ord(Head(t))

\* datetime.datetime.fromtimestamp(mtime).isoformat() for a whole number of
\* seconds below 60, on a host whose time zone is UTC
IsoFormat(mtime) ==
    InfoLit.epoch \o ZeroPad(IntStr(mtime), 2)

\* the description with the leading quotes removed
DropQuotePrefix(description) ==
    IF StartsWith(description, InfoLit.triple_quote)
    THEN Strip(SubSeq(description, 4, Len(description)))
    ELSE description

\* the description with the trailing quotes removed
DropQuoteSuffix(description) ==
    IF EndsWith(description, InfoLit.triple_quote)
    THEN Strip(SubSeq(description, 1, Len(description) - 3))
    ELSE description

\* WebhookExecutorServicer._get_plugin_description from the first line on
DescriptionOrName(description, cls) ==
    IF description # NoText THEN description ELSE InfoLit.plugin_class \o cls.name

\* WebhookExecutorServicer._get_plugin_description
GetPluginDescription(cls) ==
    DescriptionOrName(
        IF cls.doc # NoText
        THEN DropQuoteSuffix(DropQuotePrefix(Strip(Split(Strip(cls.doc), "\n")[1])))
        ELSE NoText,
        cls)

AllMethods ==
    <<PluginLit.GET, PluginLit.POST, PluginLit.PUT, PluginLit.DELETE>>

\* the attribute method.lower() names
MethodAttr(method) ==
    CASE method = PluginLit.GET -> Attr.get
      [] method = PluginLit.POST -> Attr.post
      [] method = PluginLit.PUT -> Attr.put
      [] method = PluginLit.DELETE -> Attr.delete

\* a report without the fallback to all four methods
GetSupportedMethodsNoFallback(cls) ==
    SelectSeq(AllMethods, LAMBDA m : Overrides(cls, MethodAttr(m)))

\* WebhookExecutorServicer._get_supported_methods
GetSupportedMethods(cls) ==
    IF \E i \in 1..4 : Overrides(cls, MethodAttr(AllMethods[i]))
    THEN SelectSeq(AllMethods, LAMBDA m : Overrides(cls, MethodAttr(m)))
    ELSE AllMethods

\* webhook_pb2.PluginInfo(...)
PluginInfo(name, path, description, supported_methods, is_available, last_modified) ==
    [name |-> name, path |-> path, description |-> description,
     supported_methods |-> supported_methods, is_available |-> is_available,
     last_modified |-> last_modified]

\* the modification time ListPlugins reports; "" when reading it fails
LastModified(fs, path) ==
    IF fs[path] = Absent THEN NoText ELSE IsoFormat(fs[path].mtime)

\* the entry of the inner except branch for the exception text e
FailedEntry(name, path, e) ==
    PluginInfo(name, path, InfoLit.failed_to_load \o e, <<>>, FALSE, NoText)

\* the entry of a plugin that loaded; a description PluginInfo(...) cannot encode
\* raises into the inner except branch
LoadedEntry(fs, name, path, cls) ==
    IF Encodable(GetPluginDescription(cls))
    THEN PluginInfo(name, path, GetPluginDescription(cls), GetSupportedMethods(cls), TRUE,
                    LastModified(fs, path))
    ELSE FailedEntry(name, path, Utf8ErrorText(GetPluginDescription(cls)))

\* the entry ListPlugins builds after _load_plugin_with_cache returned or raised lc
ListEntry(fs, name, path, lc) ==
    IF lc.raised
    THEN FailedEntry(name, path, lc.text)
    ELSE LoadedEntry(fs, name, path, ClassOf(lc.classes[lc.obj]))

\* request.filter and request.filter.lower() not in name.lower()
FilteredOut(filter, name) ==
    filter # NoText /\ ~Contains(Lower(name), Lower(filter))

RECURSIVE SortedInsert(_, _)
SortedInsert(infos, info) ==
    IF infos = <<>> THEN <<info>>
    ELSE IF StrLess(info.name, Head(infos).name) THEN <<info>> \o infos
    ELSE <<Head(infos)>> \o SortedInsert(Tail(infos), info)

\* a list left in the order of the discovery map
Unsorted(infos) ==
    infos

RECURSIVE SortByName(_)
\* plugin_infos.sort(key=lambda p: p.name)
SortByName(infos) ==
    IF infos = <<>> THEN <<>>
    ELSE SortedInsert(SortByName(SubSeq(infos, 1, Len(infos) - 1)), infos[Len(infos)])

\* webhook_pb2.ListPluginsResponse(plugins=..., total_count=...)
ListPluginsResponse(plugin_infos) ==
    [plugins |-> plugin_infos, total_count |-> Len(plugin_infos)]

\* the state of the loop `for name, path in plugins.items()`; ended: "" while it
\* runs, "raised" once an exception left the loop body for the outer except
\* branch, "escaped" once one left that too
ListState(cacheMap, heap, infos, calls, ended) ==
    [cache |-> cacheMap, classes |-> heap, infos |-> infos, calls |-> calls, ended |-> ended]

\* one pass of the loop body, after _load_plugin_with_cache returned or raised lc:
\* the inner `except Exception` does not catch a BaseException, and an error text
\* that PluginInfo(...) cannot encode raises from inside that branch
ListStep(fs, name, path, lc, st) ==
    IF lc.raised /\ lc.base
    THEN ListState(lc.cache, lc.classes, st.infos, Append(st.calls, lc.call), "escaped")
    ELSE IF lc.raised /\ ~Encodable(InfoLit.failed_to_load \o lc.text)
    THEN ListState(lc.cache, lc.classes, st.infos, Append(st.calls, lc.call), "raised")
    ELSE ListState(lc.cache, lc.classes, Append(st.infos, ListEntry(fs, name, path, lc)),
                   Append(st.calls, lc.call), "")

RECURSIVE ListLoop(_, _, _, _, _)
\* the loop from its i-th pass on
ListLoop(fs, plugins, i, filter, st) ==
    IF i > Len(plugins) \/ st.ended # "" THEN st
    ELSE IF FilteredOut(filter, plugins[i][1])
    THEN ListLoop(fs, plugins, i + 1, filter, st)
    ELSE Bind(Bind(LoadWithCache(fs, st.cache, st.classes, plugins[i][2]),
                   LAMBDA lc : ListStep(fs, plugins[i][1], plugins[i][2], lc, st)),
              LAMBDA next : ListLoop(fs, plugins, i + 1, filter, next))

\* ListPlugins after the loop; its outer except branch returns
\* webhook_pb2.ListPluginsResponse(), a response without entries
ListAfterLoop(plugins, st, svc) ==
    IF st.ended = "escaped"
    THEN Escaped(plugins, st.cache, st.classes, svc, st.calls, <<>>)
    ELSE IF st.ended = "raised"
    THEN Outcome(plugins, st.cache, st.classes, svc, ListPluginsResponse(<<>>),
                 st.calls, <<>>, "list_failed")
    ELSE Outcome(plugins, st.cache, st.classes, svc, ListPluginsResponse(SortByName(st.infos)),
                 st.calls, <<>>, "")

\* ListPlugins after _get_plugins_with_extra_dirs returned plugins
ListAfterDiscovery(fs, plugins, cacheMap, heap, svc, filter) ==
    Bind(ListLoop(fs, plugins, 1, filter, ListState(cacheMap, heap, <<>>, <<>>, "")),
         LAMBDA st : ListAfterLoop(plugins, st, svc))

ListPluginsResult(fs, cached, cacheMap, heap, svc, filter, order) ==
    Bind(GetPluginsWithExtraDirs(cached, order),
         LAMBDA plugins : ListAfterDiscovery(fs, plugins, cacheMap, heap, svc, filter))

ListPlugins(filter, order) ==
    /\ \E o \in {ListPluginsResult(files, lru, cache, classes, stats, filter, order)} :
          Took(o, "ListPlugins", filter, NoText, <<>>)
    /\ UNCHANGED <<files, writes, returned, pc, loc, loads>>

\* webhook_pb2.GetPluginInfoResponse(plugin=..., found=...)
GetPluginInfoResponse(found, plugin) ==
    [found |-> found, plugin |-> plugin]

\* the unset PluginInfo of a response built with found=False only
NoPluginInfo == PluginInfo(NoText, NoText, NoText, <<>>, FALSE, NoText)

\* load_plugin(path) as GetPluginInfo calls it, on the file itself
LoadDirect(fs, path) ==
    IF fs[path] = Absent
    THEN [ok |-> FALSE, base |-> FALSE, text |-> PyText.enoent \o path \o <<"'">>, def |-> 0]
    ELSE load_plugin(path, fs[path].src)

\* the inner except branch of GetPluginInfo for the exception text e; when
\* PluginInfo(...) cannot encode it, the outer except branch answers found=False
InfoFailed(plugin_name, path, e) ==
    IF Encodable(InfoLit.failed_to_load \o e)
    THEN GetPluginInfoResponse(TRUE, FailedEntry(plugin_name, path, e))
    ELSE GetPluginInfoResponse(FALSE, NoPluginInfo)

\* GetPluginInfo after load_plugin returned the class cls
InfoLoaded(plugin_name, path, cls) ==
    IF Encodable(Strip(cls.doc))
    THEN GetPluginInfoResponse(TRUE,
            PluginInfo(plugin_name, path, Strip(cls.doc), AllMethods, TRUE, NoText))
    ELSE InfoFailed(plugin_name, path, Utf8ErrorText(Strip(cls.doc)))

\* GetPluginInfo after load_plugin returned or raised r, an Exception if it
\* raised; the class object is dropped when the call returns
InfoAfterLoad(fs, plugin_name, path, r) ==
    IF r.ok
    THEN InfoLoaded(plugin_name, path, SourceOf(fs[path].src).defs[r.def].cls)
    ELSE InfoFailed(plugin_name, path, r.text)

\* a variant of InfoFound that also loads through _load_plugin_with_cache
InfoFoundCached(fs, cached, cacheMap, heap, svc, plugin_name, path, r) ==
    Bind(LoadWithCache(fs, cacheMap, heap, path),
         LAMBDA lc :
            IF ~r.ok /\ r.base
            THEN Escaped(cached, lc.cache, lc.classes, svc, NoCall, <<>>)
            ELSE Outcome(cached, lc.cache, lc.classes, svc,
                         InfoAfterLoad(fs, plugin_name, path, r), NoCall, <<>>, ""))

\* GetPluginInfo once the name is found at path and load_plugin returned or
\* raised r: a BaseException passes both `except Exception` clauses
InfoFound(fs, cached, cacheMap, heap, svc, plugin_name, path, r) ==
    IF ~r.ok /\ r.base
    THEN Escaped(cached, cacheMap, heap, svc, NoCall, <<>>)
    ELSE Outcome(cached, cacheMap, heap, svc, InfoAfterLoad(fs, plugin_name, path, r),
                 NoCall, <<>>, "")

\* GetPluginInfo: it reads get_plugins(), the dict the lru_cache keeps
GetPluginInfoResult(fs, cached, cacheMap, heap, svc, plugin_name) ==
    IF ~DictHas(cached, plugin_name)
    THEN Outcome(cached, cacheMap, heap, svc, GetPluginInfoResponse(FALSE, NoPluginInfo),
                 NoCall, <<>>, "")
    ELSE InfoFound(fs, cached, cacheMap, heap, svc, plugin_name, DictGet(cached, plugin_name),
                   LoadDirect(fs, DictGet(cached, plugin_name)))

GetPluginInfo(plugin_name) ==
    /\ Took(GetPluginInfoResult(files, lru, cache, classes, stats, plugin_name),
            "GetPluginInfo", plugin_name, NoText, <<>>)
    /\ UNCHANGED <<files, writes, returned, pc, loc, loads>>

(***************************************************************************)
(* The in-process REST layer: webhook_bridge.api.call_plugin                *)
(***************************************************************************)
\* the string literals of webhook_bridge/api/call_plugin.py and models.py
RestLit ==
    [status_code |->
        <<"s", "t", "a", "t", "u", "s", "_", "c", "o", "d", "e">>,
     message |->
        <<"m", "e", "s", "s", "a", "g", "e">>,
     data |->
        <<"d", "a", "t", "a">>,
     success |->
        <<"s", "u", "c", "c", "e", "s", "s">>,
     plugin |->
        <<"p", "l", "u", "g", "i", "n">>,
     plugin_data |->
        <<"p", "l", "u", "g", "i", "n", "_", "d", "a", "t", "a">>,
     not_found |->
        <<"P", "l", "u", "g", "i", "n", " ", "n", "o", "t", " ", "f", "o", "u", "n", "d">>,
     failed |->
        <<"P", "l", "u", "g", "i", "n", " ", "e", "x", "e", "c", "u", "t", "i", "o", "n", " ", "f", "a", "i", "l", "e", "d">>,
     error |->
        <<"e", "r", "r", "o", "r">>,
     details |->
        <<"d", "e", "t", "a", "i", "l", "s">>,
     not_configured |->
        <<"P", "l", "u", "g", "i", "n", " ", "d", "i", "r", "e", "c", "t", "o", "r", "y", " ", "n", "o", "t", " ", "c", "o", "n", "f", "i", "g", "u", "r", "e", "d">>,
     not_set |->
        <<"P", "l", "u", "g", "i", "n", " ", "d", "i", "r", "e", "c", "t", "o", "r", "y", " ", "n", "o", "t", " ", "s", "e", "t", " ", "i", "n", " ", "a", "p", "p", "l", "i", "c", "a", "t", "i", "o", "n", " ", "s", "t", "a", "t", "e">>,
     readme |->
        <<"r", "e", "a", "d", "m", "e">>]

RECURSIVE ValueEncodable(_)
\* whether UTF-8 can encode the JSON text of a value
ValueEncodable(val) ==
    CASE val.t = "str" -> Encodable(val.v)
      [] val.t = "list" -> \A i \in 1..Len(val.v) : ValueEncodable(val.v[i])
      [] val.t = "dict" ->
            \A i \in 1..Len(val.v) : Encodable(val.v[i][1]) /\ ValueEncodable(val.v[i][2])
      [] OTHER -> TRUE

RECURSIVE JsonCompact(_)
\* json.dumps(content, ensure_ascii=False, separators=(",", ":")), the text
\* JSONResponse.render encodes
JsonCompact(val) ==
    CASE val.t = "int" -> IntStr(val.v)
      [] val.t = "str" -> <<"\"">> \o val.v \o <<"\"">>
      [] val.t = "none" -> PyText.null
      [] val.t = "list" ->
            <<"[">> \o JoinWith(<<",">>, [i \in 1..Len(val.v) |-> JsonCompact(val.v[i])])
                    \o <<"]">>
      [] val.t = "dict" ->
            <<"{">> \o JoinWith(<<",">>,
                          [i \in 1..Len(val.v) |->
                              <<"\"">> \o val.v[i][1] \o <<"\"", ":">> \o JsonCompact(val.v[i][2])])
                    \o <<"}">>

\* WebhookResponseData(...).model_dump()
WebhookResponseData(status_code, message, data) ==
    VDict(<< <<RestLit.status_code, VInt(status_code)>>, <<RestLit.message, VStr(message)>>,
             <<RestLit.data, VDict(data)>> >>)

\* what a request ends with: raised, the handler raised instead of returning a
\* response; else the HTTP status, the media type and the body sent
RestRaised(text) ==
    [raised |-> TRUE, text |-> text, http_status |-> 0, media |-> "", body |-> VNone]

\* a response that carries the status in its envelope only and is always sent
\* with HTTP 200
WebhookResponseSent200(status_code, message, data) ==
    [raised |-> FALSE, text |-> NoText, http_status |-> 200, media |-> "application/json",
     body |-> WebhookResponseData(status_code, message, data)]

\* WebhookResponse(status_code, message, data): an HTML response of the readme
\* when data holds one, else a JSON response of the envelope; rendering raises
\* UnicodeEncodeError on text UTF-8 cannot encode
WebhookResponse(status_code, message, data) ==
    LET content == IF data # <<>> /\ DictHas(data, RestLit.readme)
                   THEN DictGet(data, RestLit.readme)
                   ELSE WebhookResponseData(status_code, message, data)
        html == data # <<>> /\ DictHas(data, RestLit.readme)
    IN  IF html /\ ~ValueEncodable(content) THEN RestRaised(Utf8ErrorText(content.v))
        ELSE IF ~html /\ ~ValueEncodable(content) THEN RestRaised(Utf8ErrorText(JsonCompact(content)))
        ELSE [raised |-> FALSE, text |-> NoText, http_status |-> status_code,
              media |-> IF html THEN "text/html" ELSE "application/json", body |-> content]

\* how a request ended: the response, the dict lru_cache holds for
\* get_plugins(plugin_dir), the files load_plugin was called on, the plugin
\* methods entered, and the branch taken
RestOutcome(response, plugins, loaded, called, step) ==
    [resp |-> response, lru |-> plugins, calls |-> loaded, called |-> called, step |-> step]

\* the except branch of _execute_plugin for the exception text error_msg; an
\* error raised while its response is built leaves the handler
RestFailed(plugins, error_msg, loaded, called, step) ==
    Bind(WebhookResponse(500, RestLit.failed, << <<RestLit.details, VStr(error_msg)>> >>),
         LAMBDA r : RestOutcome(r, plugins, loaded, called, IF r.raised THEN "escaped" ELSE step))

\* _execute_plugin after plugin_instance.execute() returned or raised e
RestAfterExecute(plugins, plugin_name, e, loaded) ==
    IF e.hangs THEN RestOutcome(RestRaised(NoText), plugins, loaded, e.called, "hung")
    ELSE IF e.raised /\ e.base
    THEN RestOutcome(RestRaised(e.text), plugins, loaded, e.called, "escaped")
    ELSE IF e.raised THEN RestFailed(plugins, e.text, loaded, e.called, "run_failed")
    ELSE Bind(WebhookResponse(200, RestLit.success,
                              << <<RestLit.plugin, VStr(plugin_name)>>,
                                 <<RestLit.plugin_data, e.val>> >>),
              LAMBDA r : IF r.raised
                         THEN RestFailed(plugins, r.text, loaded, e.called, "render_failed")
                         ELSE RestOutcome(r, plugins, loaded, e.called, "ok"))

\* _execute_plugin after load_plugin(plugin_src_file) returned or raised r
RestAfterLoad(fs, plugins, plugin_name, data, http_method, path, r) ==
    LET loaded == <<CallRecord(path, fs[path].mtime, FALSE, 1, r.ok, 0)>> IN
    IF ~r.ok /\ r.base THEN RestOutcome(RestRaised(r.text), plugins, loaded, <<>>, "escaped")
    ELSE IF ~r.ok THEN RestFailed(plugins, r.text, loaded, <<>>, "load_failed")
    ELSE Bind(ExecutePluginSafely(SourceOf(fs[path].src).defs[r.def].cls, data, http_method),
              LAMBDA e : RestAfterExecute(plugins, plugin_name, e, loaded))

\* _execute_plugin; plugin_dir is app.state.plugin_dir as the request finds it,
\* cached the dict lru_cache holds for get_plugins(plugin_dir), <<>> before the
\* first scan
RestExecuteResult(fs, cached, plugin_dir, plugin_name, data, http_method, order) ==
    IF plugin_dir = NoText
    THEN RestOutcome(WebhookResponse(500, RestLit.failed,
                                     << <<RestLit.error, VStr(RestLit.not_configured)>>,
                                        <<RestLit.details, VStr(RestLit.not_set)>> >>),
                     cached, NoCall, <<>>, "not_configured")
    ELSE Bind(IF cached # <<>> THEN cached ELSE get_plugins(EnvPlugins, plugin_dir, order),
              LAMBDA plugins :
                IF ~DictHas(plugins, plugin_name)
                THEN RestOutcome(WebhookResponse(404, RestLit.not_found,
                                                 << <<RestLit.error, VStr(RestLit.not_found)>> >>),
                                 plugins, NoCall, <<>>, "not_found")
                ELSE Bind(LoadDirect(fs, DictGet(plugins, plugin_name)),
                          LAMBDA r : RestAfterLoad(fs, plugins, plugin_name, data, http_method,
                                                   DictGet(plugins, plugin_name), r)))

\* a request POST/GET/PUT/DELETE /plugin/<plugin_name> with the data of its body
\* or its query
RestExecutePlugin(plugin_dir, plugin_name, http_method, data, order) ==
    /\ \E o \in {RestExecuteResult(files, lru, plugin_dir, plugin_name, data, http_method, order)} :
          /\ lru' = o.lru
          /\ resp' = o.resp
          /\ last' = [op |-> "rest", plugin_name |-> plugin_name, http_method |-> http_method,
                      data |-> data, calls |-> o.calls, called |-> o.called, step |-> o.step]
    /\ UNCHANGED <<files, cache, classes, stats, returned, writes, failed, seen, pc, loc, loads>>

(***************************************************************************)
(* The environment: plugin authors change files                            *)
(***************************************************************************)
WriteFile(path, src, mtime) ==
    /\ writes < MaxWrites
    /\ files' = [files EXCEPT ![path] = [src |-> src, mtime |-> mtime]]
    /\ files' # files
    /\ writes' = writes + 1
    /\ UNCHANGED <<lru, cache, classes, stats, resp, last, returned, failed, seen>>
    /\ UNCHANGED <<pc, loc, loads>>

RemoveFile(path) ==
    /\ writes < MaxWrites
    /\ files[path] # Absent
    /\ files' = [files EXCEPT ![path] = Absent]
    /\ writes' = writes + 1
    /\ UNCHANGED <<lru, cache, classes, stats, resp, last, returned, failed, seen>>
    /\ UNCHANGED <<pc, loc, loads>>

(***************************************************************************)
(* Specification Spec: the service, one call at a time, while plugin        *)
(* authors change the plugin file a.py of the configured directory          *)
(***************************************************************************)
NoRequest ==
    [op |-> "", plugin_name |-> NoText, http_method |-> NoText, data |-> <<>>,
     calls |-> NoCall, called |-> <<>>, step |-> ""]

NoStats ==
    [total_executions |-> 0, total_execution_time |-> 0,
     successful_executions |-> 0, failed_executions |-> 0]

\* the local variables of an ExecutePlugin call: the request, the plugin's path
\* and the mtime read, the arguments of the pending _update_execution_stats call
\* (success, dt), the value read for the `+=` under way (tmp), the response the
\* call is going to construct and whether constructing it works (builds);
\* raced: history, whether the call's cache lookup overlapped a load in flight
NoLocals ==
    [plugin_name |-> NoText, http_method |-> NoText, data |-> <<>>,
     path |-> NoText, mtime |-> 0, raced |-> FALSE,
     success |-> FALSE, dt |-> 0, tmp |-> 0, builds |-> TRUE, response |-> NoResponse]

File(src, mtime) == [src |-> src, mtime |-> mtime]

NoFiles == [p \in Paths |-> Absent]

\* the state WebhookExecutorServicer.__init__ leaves on the file system fs:
\* _validate_environment has called get_plugins(), so the lru_cache holds the
\* scan of that moment
\* the service constructed over the files fs with WEBHOOK_BRIDGE_SERVER_PLUGINS
\* set to env
ConstructedWith(fs, env) ==
    /\ files = fs
    /\ \E order \in ListingOrders(fs) : lru = get_plugins(env, NoText, order)
    /\ cache = <<>>
    /\ classes = <<>>
    /\ stats = NoStats
    /\ resp = NoResponse
    /\ last = NoRequest
    /\ returned = [ok |-> 0, other |-> 0]
    /\ writes = 0
    /\ failed = {}
    /\ seen = [p \in Paths |-> 0]
    /\ pc = [w \in Workers |-> "idle"]
    /\ loc = [w \in Workers |-> NoLocals]
    /\ loads = {}

Constructed(fs) ==
    ConstructedWith(fs, EnvPlugins)

Calls == returned.ok + returned.other

WritablePaths == {PathJoin(ExtraDir, F_a)}

WriteSources == {"handle_only", "no_class"}

InitialFiles ==
    {[NoFiles EXCEPT ![PathJoin(DefaultDir, F_b)] = b, ![PathJoin(ExtraDir, F_a)] = a] :
        a \in {Absent, File("handle_only", 1), File("surrogate", 1)},
        b \in {Absent, File("get_put", 1)}}

Init ==
    \E fs \in InitialFiles : Constructed(fs)

Next ==
    \/ \E n \in {N_a, N_zz}, dt \in Durations, order \in ListingOrders(files) :
         Calls < MaxExec /\ ExecutePlugin(n, PluginLit.GET, <<>>, dt, order)
    \/ \E p \in WritablePaths, s \in WriteSources, t \in Mtimes : WriteFile(p, s, t)
    \/ \E p \in WritablePaths : RemoveFile(p)
    \/ \E order \in ListingOrders(files) : HealthCheck(order)

Spec == Init /\ [][Next]_vars

(***************************************************************************)
(* Specification SpecApi: every operation of the service, one call at a     *)
(* time, over a default directory and a configured one that both hold a.py, *)
(* while plugin authors add, change and remove files                        *)
(***************************************************************************)
F_A ==
    <<"A">>

Filters == {NoText, F_A, N_b}

ApiNames == {N_a, N_b}

ApiDurations == {1}

\* the files plugin authors touch, and what they write into each
ApiWrites ==
    {<<PathJoin(ExtraDir, F_a), "documented">>, <<PathJoin(DefaultDir, F_b), "no_class">>}

InitApi ==
    \E d \in {Absent, File("get_put", 1)}, x \in {Absent, File("handle_only", 1)} :
        Constructed([NoFiles EXCEPT ![PathJoin(DefaultDir, F_a)] = d,
                                    ![PathJoin(ExtraDir, F_a)] = x])

NextApi ==
    \/ \E n \in ApiNames, dt \in ApiDurations, order \in ListingOrders(files) :
         Calls < MaxExec /\ ExecutePlugin(n, PluginLit.GET, <<>>, dt, order)
    \/ \E f \in Filters, order \in ListingOrders(files) : ListPlugins(f, order)
    \/ \E n \in ApiNames : GetPluginInfo(n)
    \/ \E order \in ListingOrders(files) : HealthCheck(order)
    \/ \E w \in ApiWrites, t \in Mtimes : WriteFile(w[1], w[2], t)
    \/ \E w \in ApiWrites : RemoveFile(w[1])

SpecApi == InitApi /\ [][NextApi]_vars

(***************************************************************************)
(* Specification SpecExec: single requests with every method and payload    *)
(* against a service whose plugin a.py holds any of the sources             *)
(***************************************************************************)
\* how many requests one run of SpecExec serves
MaxRequests == 1

ReqMethods ==
    {PluginLit.GET, PluginLit.POST, PluginLit.PUT, PluginLit.DELETE, M_Put, M_get, M_PATCH}

Payloads ==
    {<<>>} \cup {Payload(e) : e \in ErrorTexts}

Sources ==
    {"handle_only", "get_put", "legacy_run", "raiser", "ctor_raiser", "none",
     "surrogate", "no_class", "syntax_error", "unreadable", "exit"}

InitExec ==
    \E s \in Sources : Constructed([NoFiles EXCEPT ![PathJoin(ExtraDir, F_a)] = File(s, 1)])

NextExec ==
    \E m \in ReqMethods, d \in Payloads, dt \in Durations, order \in ListingOrders(files) :
        Calls < MaxRequests /\ ExecutePlugin(N_a, m, d, dt, order)

SpecExec == InitExec /\ [][NextExec]_vars

(***************************************************************************)
(* Specification SpecConc: ExecutePlugin calls on the worker threads of the *)
(* server's pool.  A thread can be switched between any two bytecodes, so   *)
(* a call is a sequence of steps with one access to shared state each: the  *)
(* discovery, the cache lookup, the load with its store, and the read and   *)
(* the write of every `+=` of _update_execution_stats.                      *)
(***************************************************************************)
InFlight ==
    Cardinality({w \in Workers : pc[w] # "idle"})

Goto(w, label, l) ==
    /\ pc' = [pc EXCEPT ![w] = label]
    /\ loc' = [loc EXCEPT ![w] = l]

\* the call is about to run _update_execution_stats(success, l.dt) and then to
\* construct the response
Updating(l, success, builds, response) ==
    [l EXCEPT !.success = success, !.builds = builds, !.response = response]

\* the call enters the except branch of ExecutePlugin with str(e) = error_msg
Excepting(l, error_msg) ==
    Updating(l, FALSE, TRUE,
             Response(StatusFor(error_msg), "Plugin execution failed", <<>>, error_msg, l.dt))

\* the call has the formatted result of the plugin
Returning(l, result_data) ==
    Updating(l, TRUE, ResponseBuilds(result_data, NoText),
             Response(200, "success", result_data, NoText, l.dt))

\* where the call stands once _execute_plugin_safely has been entered: inside
\* the plugin for good, out of ExecutePlugin with an error nothing catches, or
\* at the statistics
HandlerLabel(r) ==
    IF r.hangs THEN "running"
    ELSE IF r.raised /\ r.base THEN "idle"
    ELSE "total_r"

\* the call after _execute_plugin_safely returned or raised r
AfterHandler(l, r) ==
    IF r.hangs THEN l
    ELSE IF r.raised /\ r.base THEN NoLocals
    ELSE IF r.raised THEN Excepting(l, r.text)
    ELSE Returning(l, FormatPluginResult(r.val))

\* the call runs the plugin class cls: no shared state is touched
Handled(w, l, cls) ==
    \E r \in {ExecutePluginSafely(cls, l.data, l.http_method)} :
        Goto(w, HandlerLabel(r), AfterHandler(l, r))

\* a server that takes a call only when no other call is being served
FreeWhenAllIdle(w) ==
    \A v \in Workers : pc[v] = "idle"

\* a thread of the pool takes a call when it is not serving one
Free(w) ==
    pc[w] = "idle"

LoadRecord(w, path, mtime, obj, hit, raced) ==
    [w |-> w, path |-> path, mtime |-> mtime, obj |-> obj, hit |-> hit, raced |-> raced]

\* the other workers that found the key missing and have not stored yet
Racing(w, path, mtime) ==
    {v \in Workers \ {w} : pc[v] = "store" /\ loc[v].path = path /\ loc[v].mtime = mtime}

\* ExecutePlugin up to the lookup of the name in the discovery map
Worker_Start(w, plugin_name, http_method, data, dt, order) ==
    /\ Free(w)
    /\ lru' = GetPluginsWithExtraDirs(lru, order)
    /\ IF DictHas(lru', plugin_name)
       THEN Goto(w, "probe",
                 [NoLocals EXCEPT !.plugin_name = plugin_name, !.http_method = http_method,
                                  !.data = data, !.dt = dt,
                                  !.path = DictGet(lru', plugin_name)])
       ELSE Goto(w, "total_r",
                 Updating([NoLocals EXCEPT !.plugin_name = plugin_name,
                                           !.http_method = http_method,
                                           !.data = data, !.dt = dt],
                          FALSE, TRUE,
                          Response(404, "Plugin not found", <<>>,
                                   NotFoundMessage(plugin_name, lru'), dt)))
    /\ UNCHANGED <<files, cache, classes, stats, resp, last, returned, writes, failed,
                   seen, loads>>

\* _load_plugin_with_cache up to `if cache_key in self.plugin_cache`, and on a hit
\* the rest of the call up to the statistics
ProbeStep(w, l, file) ==
    IF file = Absent
    THEN /\ Goto(w, "total_r", Excepting(l, PyText.enoent \o l.path \o <<"'">>))
         /\ UNCHANGED <<loads, seen>>
    ELSE IF CacheHit(cache, <<l.path, file.mtime>>)
    THEN /\ \E cls \in {ClassOf(classes[cache[<<l.path, file.mtime>>]])} :
                Handled(w, [l EXCEPT !.mtime = file.mtime], cls)
         /\ loads' = loads \cup {LoadRecord(w, l.path, file.mtime,
                                            cache[<<l.path, file.mtime>>], TRUE,
                                            Racing(w, l.path, file.mtime) # {})}
         /\ seen' = [seen EXCEPT ![l.path] = file.mtime]
    ELSE /\ pc' = [pc EXCEPT ![w] = "store"]
         /\ loc' = [v \in Workers |->
                      IF v = w
                      THEN [l EXCEPT !.mtime = file.mtime,
                                     !.raced = Racing(w, l.path, file.mtime) # {}]
                      ELSE IF v \in Racing(w, l.path, file.mtime)
                      THEN [loc[v] EXCEPT !.raced = TRUE]
                      ELSE loc[v]]
         /\ UNCHANGED <<loads, seen>>

Worker_Probe(w) ==
    /\ pc[w] = "probe"
    /\ ProbeStep(w, loc[w], files[loc[w].path])
    /\ UNCHANGED <<files, lru, cache, classes, stats, resp, last, returned, writes, failed>>

\* _load_plugin_with_cache from load_plugin(plugin_path) on, r being what
\* load_plugin returned or raised, and the rest of the call up to the statistics
StoreStep(w, l, r) ==
    IF ~r.ok
    THEN /\ IF r.base THEN Goto(w, "idle", NoLocals)
            ELSE Goto(w, "total_r", Excepting(l, r.text))
         /\ failed' = failed \cup {<<l.path, l.mtime>>}
         /\ UNCHANGED <<cache, classes, loads, seen>>
    ELSE /\ classes' = Append(classes, [src |-> files[l.path].src, def |-> r.def])
         /\ cache' = CacheStore(cache, <<l.path, l.mtime>>, Len(classes'))
         /\ \E cls \in {ClassOf(classes'[Len(classes')])} : Handled(w, l, cls)
         /\ loads' = loads \cup {LoadRecord(w, l.path, l.mtime, Len(classes'), FALSE, l.raced)}
         /\ seen' = [seen EXCEPT ![l.path] = l.mtime]
         /\ UNCHANGED failed

Worker_Store(w) ==
    /\ pc[w] = "store"
    /\ \E r \in {load_plugin(loc[w].path, files[loc[w].path].src)} : StoreStep(w, loc[w], r)
    /\ UNCHANGED <<files, lru, stats, resp, last, returned, writes>>

\* the counter the `+=` at the label works on
StatsField(label, success) ==
    CASE label \in {"total_r", "total_w"} -> "total_executions"
      [] label \in {"time_r", "time_w"} -> "total_execution_time"
      [] label \in {"count_r", "count_w"} ->
            IF success THEN "successful_executions" ELSE "failed_executions"

\* the left half of a `+=` of _update_execution_stats: the counter is read
Worker_StatsRead(w) ==
    /\ pc[w] \in {"total_r", "time_r", "count_r"}
    /\ Goto(w, CASE pc[w] = "total_r" -> "total_w"
                 [] pc[w] = "time_r" -> "time_w"
                 [] pc[w] = "count_r" -> "count_w",
            [loc[w] EXCEPT !.tmp = stats[StatsField(pc[w], loc[w].success)]])
    /\ UNCHANGED <<files, lru, cache, classes, stats, resp, last, returned, writes, failed,
                   seen, loads>>

\* the call returns its response
Return(w, l) ==
    /\ Goto(w, "idle", NoLocals)
    /\ resp' = l.response
    /\ returned' = IF l.response.status_code = 200
                   THEN [returned EXCEPT !.ok = @ + 1]
                   ELSE [returned EXCEPT !.other = @ + 1]

\* the right half of a `+=`: the sum is stored; after the last one the response is
\* constructed and returned, or its construction raises into the except branch
Worker_StatsWrite(w) ==
    /\ pc[w] \in {"total_w", "time_w", "count_w"}
    /\ stats' = [stats EXCEPT ![StatsField(pc[w], loc[w].success)] =
                    loc[w].tmp + (IF pc[w] = "time_w" THEN loc[w].dt ELSE 1)]
    /\ IF pc[w] = "total_w"
       THEN Goto(w, "time_r", loc[w]) /\ UNCHANGED <<resp, returned>>
       ELSE IF pc[w] = "time_w"
       THEN Goto(w, "count_r", loc[w]) /\ UNCHANGED <<resp, returned>>
       ELSE IF loc[w].success /\ ~loc[w].builds
       THEN Goto(w, "total_r", Excepting(loc[w], PyText.utf8)) /\ UNCHANGED <<resp, returned>>
       ELSE Return(w, loc[w])
    /\ UNCHANGED <<files, lru, cache, classes, last, writes, failed, seen, loads>>

ConcNames == {N_a, N_b}

\* seconds a concurrent call takes
ConcDurations == {1}

InitConc ==
    Constructed([NoFiles EXCEPT ![PathJoin(ExtraDir, F_a)] = File("handle_only", 1),
                                ![PathJoin(DefaultDir, F_b)] = File("no_class", 1)])

NextConc ==
    \/ \E w \in Workers, n \in ConcNames, dt \in ConcDurations,
            order \in ListingOrders(files) :
         Calls + InFlight < MaxExec /\ Worker_Start(w, n, PluginLit.GET, <<>>, dt, order)
    \/ \E w \in Workers : Worker_Probe(w)
    \/ \E w \in Workers : Worker_Store(w)
    \/ \E w \in Workers : Worker_StatsRead(w)
    \/ \E w \in Workers : Worker_StatsWrite(w)

SpecConc == InitConc /\ [][NextConc]_vars

(***************************************************************************)
(* Specification SpecHang: the worker threads again, with a plugin a.py     *)
(* whose capability never returns; once a call is stuck in it, ListPlugins *)
(* and HealthCheck calls run on a free thread, each in one step             *)
(***************************************************************************)
InitHang ==
    Constructed([NoFiles EXCEPT ![PathJoin(ExtraDir, F_a)] = File("hang", 1),
                                ![PathJoin(DefaultDir, F_b)] = File("get_put", 1)])

\* some call is inside a capability that never returns
Stuck ==
    \E w \in Workers : pc[w] = "running"

NextHang ==
    \/ \E w \in Workers, n \in ConcNames, dt \in ConcDurations,
            order \in ListingOrders(files) :
         Calls + InFlight < MaxExec /\ Worker_Start(w, n, PluginLit.GET, <<>>, dt, order)
    \/ \E w \in Workers : Worker_Probe(w)
    \/ \E w \in Workers : Worker_Store(w)
    \/ \E w \in Workers : Worker_StatsRead(w)
    \/ \E w \in Workers : Worker_StatsWrite(w)
    \/ \E w \in Workers, order \in ListingOrders(files) :
         Stuck /\ Free(w) /\ ListPlugins(NoText, order)
    \/ \E w \in Workers, order \in ListingOrders(files) :
         Stuck /\ Free(w) /\ HealthCheck(order)

SpecHang == InitHang /\ [][NextHang]_vars

(***************************************************************************)
(* Specification SpecInfo: the service describes its plugins (ListPlugins,  *)
(* GetPluginInfo) over a default and a configured directory that hold a.py  *)
(* and b.py in any listing order, among them files that do not load         *)
(***************************************************************************)
InfoNames == {N_a, N_b, N_zz}

InitInfo ==
    \E da \in {Absent, File("documented", 1)}, db \in {Absent, File("get_put", 1)},
       xa \in {Absent, File("handle_only", 2), File("script", 1), File("surrogate_error", 1)},
       xb \in {Absent, File("no_class", 1)} :
        Constructed([NoFiles EXCEPT ![PathJoin(DefaultDir, F_a)] = da,
                                    ![PathJoin(DefaultDir, F_b)] = db,
                                    ![PathJoin(ExtraDir, F_a)] = xa,
                                    ![PathJoin(ExtraDir, F_b)] = xb])

NextInfo ==
    \/ \E f \in Filters, order \in ListingOrders(files) : ListPlugins(f, order)
    \/ \E n \in InfoNames : GetPluginInfo(n)

SpecInfo == InitInfo /\ [][NextInfo]_vars

(***************************************************************************)
(* Specification SpecHealth: HealthCheck between the calls of a service     *)
(* that serves enough of them for the success rate to count, with a plugin  *)
(* file a.py that may not load                                              *)
(***************************************************************************)
\* how many ExecutePlugin calls one run of SpecHealth serves
MaxServed == 12

HealthSources == {"handle_only", "no_class", "script", "surrogate_error"}

InitHealth ==
    \E xa \in {Absent} \cup {File(src, 1) : src \in HealthSources},
       db \in {Absent, File("get_put", 1)} :
        Constructed([NoFiles EXCEPT ![PathJoin(ExtraDir, F_a)] = xa,
                                    ![PathJoin(DefaultDir, F_b)] = db])

NextHealth ==
    \/ \E order \in ListingOrders(files) : HealthCheck(order)
    \/ \E n \in {N_a, N_zz}, order \in ListingOrders(files) :
         Calls < MaxServed /\ ExecutePlugin(n, PluginLit.GET, <<>>, 1, order)

SpecHealth == InitHealth /\ [][NextHealth]_vars

(***************************************************************************)
(* Specification SpecLoad: every operation that loads a plugin file, on a   *)
(* service whose plugin a.py holds any source of the catalogue              *)
(***************************************************************************)
AllSources ==
    {"handle_only", "get_put", "legacy_run", "raiser", "ctor_raiser", "none", "surrogate",
     "super_run", "no_class", "documented", "exit", "two_classes", "rebound",
     "syntax_error", "unreadable", "script", "surrogate_error"}

InitLoad ==
    \E s \in AllSources : Constructed([NoFiles EXCEPT ![PathJoin(DefaultDir, F_a)] = File(s, 1)])

NextLoad ==
    \/ \E m \in {PluginLit.GET, PluginLit.PUT}, order \in ListingOrders(files) :
         Calls < MaxRequests /\ ExecutePlugin(N_a, m, <<>>, 1, order)
    \/ \E order \in ListingOrders(files) : ListPlugins(NoText, order)
    \/ GetPluginInfo(N_a)
    \/ \E order \in ListingOrders(files) : HealthCheck(order)

SpecLoad == InitLoad /\ [][NextLoad]_vars

(***************************************************************************)
(* Specification SpecPaths: get_plugin_paths(extra_path) under every        *)
(* environment; last holds the arguments of the call (data: the directories *)
(* WEBHOOK_BRIDGE_SERVER_PLUGINS lists, plugin_name: extra_path, "" for     *)
(* None), resp the list it returned                                         *)
(***************************************************************************)
MaxEnvDirs == 2

PathDirs == {DefaultDir, ExtraDir, MissingDir, EnvPlugins}

EnvLists ==
    UNION {[1..n -> PathDirs] : n \in 0..MaxEnvDirs}

InitPaths ==
    /\ \E dirs \in EnvLists, extra_path \in {NoText} \cup PathDirs :
          last = [NoRequest EXCEPT !.plugin_name = extra_path, !.data = dirs]
    /\ files = NoFiles
    /\ lru = <<>>
    /\ cache = <<>>
    /\ classes = <<>>
    /\ stats = NoStats
    /\ resp = NoResponse
    /\ returned = [ok |-> 0, other |-> 0]
    /\ writes = 0
    /\ failed = {}
    /\ seen = [p \in Paths |-> 0]
    /\ pc = [w \in Workers |-> "idle"]
    /\ loc = [w \in Workers |-> NoLocals]
    /\ loads = {}

\* os.environ["WEBHOOK_BRIDGE_SERVER_PLUGINS"] = os.pathsep.join(dirs), then
\* get_plugin_paths(extra_path)
GetPluginPaths ==
    /\ last.op = ""
    /\ resp' = get_plugin_paths(JoinWith(<<PathSep>>, last.data), last.plugin_name)
    /\ last' = [last EXCEPT !.op = "get_plugin_paths"]
    /\ UNCHANGED <<files, lru, cache, classes, stats, returned, writes, failed, seen,
                   pc, loc, loads>>

NextPaths == GetPluginPaths

SpecPaths == InitPaths /\ [][NextPaths]_vars

(***************************************************************************)
(* Specification SpecScan: discovery over directories that hold files of    *)
(* every kind of name, with the environment variable unset or naming a      *)
(* missing path, a file or the directory /x                                 *)
(***************************************************************************)
MaxScanFiles == 2

ScanSets == {S \in SUBSET ScanNames : Cardinality(S) <= MaxScanFiles}

ScanEnvs == {NoText, EnvPlugins, PathJoin(DefaultDir, F_a), ExtraDir}

ScanFiles(D, X) ==
    [p \in Paths |->
        IF p \in {PathJoin(DefaultDir, f) : f \in D} \cup {PathJoin(ExtraDir, f) : f \in X}
        THEN File("handle_only", 1) ELSE Absent]

InitScan ==
    \E D \in ScanSets, X \in ScanSets, env \in ScanEnvs : ConstructedWith(ScanFiles(D, X), env)

NextScan ==
    \E order \in ListingOrders(files) : HealthCheck(order)

SpecScan == InitScan /\ [][NextScan]_vars

(***************************************************************************)
(* Specification SpecRest: requests to /plugin/<name> of the in-process     *)
(* REST layer, with the plugin directory /x configured or not; the files do *)
(* not change, so the dict lru_cache holds is the scan of the first request *)
(***************************************************************************)
RestSources ==
    {"handle_only", "run_only", "legacy_run", "super_run", "raiser", "none", "surrogate",
     "no_class", "exit"}

RestPayloads ==
    {<<>>, Payload(E_boom), Payload(<<Surrogate>>)}

\* the process before its first request: nothing scanned, nothing loaded
InitRest ==
    /\ \E xa \in {Absent} \cup {File(src, 1) : src \in RestSources},
          db \in {Absent, File("get_put", 1)} :
          files = [NoFiles EXCEPT ![PathJoin(ExtraDir, F_a)] = xa,
                                  ![PathJoin(DefaultDir, F_b)] = db]
    /\ lru = <<>>
    /\ cache = <<>>
    /\ classes = <<>>
    /\ stats = NoStats
    /\ resp = NoResponse
    /\ last = NoRequest
    /\ returned = [ok |-> 0, other |-> 0]
    /\ writes = 0
    /\ failed = {}
    /\ seen = [p \in Paths |-> 0]
    /\ pc = [w \in Workers |-> "idle"]
    /\ loc = [w \in Workers |-> NoLocals]
    /\ loads = {}

NextRest ==
    \E plugin_dir \in {NoText, ExtraDir}, n \in {N_a, N_b, N_zz},
       m \in {PluginLit.GET, PluginLit.POST}, d \in RestPayloads,
       order \in ListingOrders(files) :
        RestExecutePlugin(plugin_dir, n, m, d, order)

SpecRest == InitRest /\ [][NextRest]_vars

(***************************************************************************)
(* Specification SpecCount: the worker threads of SpecConc serving up to    *)
(* MaxCounted calls, so that one thread can serve two calls while another   *)
(* is inside a `+=` of _update_execution_stats                              *)
(***************************************************************************)
MaxCounted == 3

NextCount ==
    \/ \E w \in Workers, n \in {N_a, N_zz}, order \in ListingOrders(files) :
         Calls + InFlight < MaxCounted /\ Worker_Start(w, n, PluginLit.GET, <<>>, 1, order)
    \/ \E w \in Workers : Worker_Probe(w)
    \/ \E w \in Workers : Worker_Store(w)
    \/ \E w \in Workers : Worker_StatsRead(w)
    \/ \E w \in Workers : Worker_StatsWrite(w)

SpecCount == InitConc /\ [][NextCount]_vars

(***************************************************************************)
(* Specification SpecTorn: the worker threads serve up to MaxTorn calls of  *)
(* the plugin a, which loads and succeeds, until a HealthCheck call on a    *)
(* free thread reads the counters they are updating; the model follows the  *)
(* service up to that HealthCheck call                                      *)
(***************************************************************************)
MaxTorn == 11

InitTorn ==
    Constructed([NoFiles EXCEPT ![PathJoin(ExtraDir, F_a)] = File("handle_only", 1)])

\* a HealthCheck call has been made
Probed ==
    last.op = "HealthCheck"

NextTorn ==
    \/ \E w \in Workers, order \in ListingOrders(files) :
         /\ ~Probed
         /\ Calls + InFlight < MaxTorn
         /\ Worker_Start(w, N_a, PluginLit.GET, <<>>, 0, order)
    \/ \E w \in Workers : ~Probed /\ Worker_Probe(w)
    \/ \E w \in Workers : ~Probed /\ Worker_Store(w)
    \/ \E w \in Workers : ~Probed /\ Worker_StatsRead(w)
    \/ \E w \in Workers : ~Probed /\ Worker_StatsWrite(w)
    \/ \E w \in Workers, order \in ListingOrders(files) :
         ~Probed /\ Free(w) /\ HealthCheck(order)

SpecTorn == InitTorn /\ [][NextTorn]_vars

(***************************************************************************)
(* Claims                                                                   *)
(***************************************************************************)
\* the step is an ExecutePlugin call
ExecuteStep ==
    Calls' = Calls + 1

OneFailureRecorded ==
    /\ stats'.total_executions = stats.total_executions + 1
    /\ stats'.failed_executions = stats.failed_executions + 1
    /\ stats'.successful_executions = stats.successful_executions

\* C1: ExecutePlugin with a name absent from the discovery map of that call
\* returns 404 "Plugin not found" with an error text that quotes every name of
\* the map, records exactly one failed execution, makes no _load_plugin_with_cache
\* call and leaves the plugin cache and the loaded classes as they were.
C1_NotFound ==
    [][(ExecuteStep /\ ~DictHas(lru', last'.plugin_name)) =>
          /\ resp'.status_code = 404
          /\ resp'.message = "Plugin not found"
          /\ \A i \in 1..Len(lru') : Contains(resp'.error, ReprChars(lru'[i][1]))
          /\ OneFailureRecorded
          /\ last'.calls = NoCall
          /\ cache' = cache
          /\ classes' = classes]_vars

\* a 404 for an unknown name while two plugins are known
C1_Witness ==
    /\ last.op = "ExecutePlugin"
    /\ last.plugin_name = N_zz
    /\ resp.status_code = 404
    /\ Len(lru) = 2
    /\ stats.failed_executions = 1

\* the class ExecutePlugin resolved in the last call
LastClass ==
    ClassOf(classes[last.calls[1].obj])

\* the last call built a plugin instance and called execute() on it
LastRan ==
    /\ last.op = "ExecutePlugin"
    /\ last.step \in {"succeeded", "execution_failed", "response_failed"}
    /\ Construct(LastClass, last.data, last.http_method).ok

\* the capability the dispatch rule names for a class and a request method
MethodCapability(cls, http_method) ==
    CASE Upper(http_method) = PluginLit.GET /\ Overrides(cls, Attr.get) -> Attr.get
      [] Upper(http_method) = PluginLit.POST /\ Overrides(cls, Attr.post) -> Attr.post
      [] Upper(http_method) = PluginLit.PUT /\ Overrides(cls, Attr.put) -> Attr.put
      [] Upper(http_method) = PluginLit.DELETE /\ Overrides(cls, Attr.delete) -> Attr.delete
      [] OTHER -> Attr.handle

\* C2, as claimed: execution enters the overridden method-specific capability
\* of the upper-cased method, and handle in every other case.
C2_Original ==
    LastRan => last.called = <<MethodCapability(LastClass, last.http_method)>>

\* C2, amended: the claimed dispatch holds for every class that does not
\* override the legacy run method; a class that overrides run has that run
\* called instead of any capability.
C2_Dispatch ==
    LastRan =>
        IF Overrides(LastClass, Attr.run)
        THEN Head(last.called) = Attr.run /\ \A i \in 1..Len(last.called) : last.called[i] = Attr.run
        ELSE last.called = <<MethodCapability(LastClass, last.http_method)>>

\* a handle-only plugin invoked with Put ran handle
C2_Witness ==
    /\ LastRan
    /\ DOMAIN LastClass.methods = {Attr.handle}
    /\ last.http_method = M_Put
    /\ last.called = <<Attr.handle>>

\* text t holds keyword kw in any letter case
HasKeyword(t, kw) ==
    \E i \in 1..(Len(t) - Len(kw) + 1) : \A j \in 1..Len(kw) : LowerChar(t[i + j - 1]) = kw[j]

LastReturned ==
    SelfRun(LastClass, Construct(LastClass, last.data, last.http_method).inst, <<>>, 0).val

\* C4, as claimed: on success the envelope's data has exactly the keys of the
\* mapping the capability returned, each value stringified or JSON-serialized.
C4_Original ==
    (last.op = "ExecutePlugin" /\ last.step = "succeeded" /\ LastReturned.t = "dict") =>
        resp.data = FormatPluginResult(LastReturned)

\* what `self.run() or {}` leaves of the returned value
OrEmpty(val) ==
    IF Truthy(val) THEN val ELSE VDict(<<>>)

\* C4, amended: on success the envelope's data has exactly the keys input_data,
\* additional_info, http_method and result of the mapping BasePlugin.execute
\* wraps the capability's return value in; scalars are stringified and mappings
\* serialized to JSON text that parses back: a plugin returning
\* {"x": 1, "y": [1, 2]} yields data.result = '{"x": 1, "y": [1, 2]}', whose
\* parse gives y = [1, 2].
C4_Format ==
    (last.op = "ExecutePlugin" /\ last.step = "succeeded") =>
        /\ DictKeys(resp.data) = <<PluginLit.input_data, PluginLit.additional_info, PluginLit.http_method, PluginLit.result>>
        /\ DictGet(resp.data, PluginLit.additional_info) = PluginLit.additional
        /\ DictGet(resp.data, PluginLit.http_method) = Upper(last.http_method)
        /\ DictGet(resp.data, PluginLit.input_data) =
              json_dumps(VDict([i \in 1..Len(last.data) |->
                                  <<last.data[i][1], VStr(last.data[i][2])>>]))
        /\ DictGet(resp.data, PluginLit.result) = json_dumps(OrEmpty(LastReturned))
        /\ json_loads(DictGet(resp.data, PluginLit.result)) = OrEmpty(LastReturned)
        /\ (last.calls[1].obj # 0 /\ classes[last.calls[1].obj].src = "handle_only") =>
              /\ DictGet(resp.data, PluginLit.result) = Sample.xy_json
              /\ DictGet(json_loads(DictGet(resp.data, PluginLit.result)).v, Sample.y)
                    = VList(<<VInt(1), VInt(2)>>)

\* the handle-only plugin returned {"x": 1, "y": [1, 2]} and the call succeeded
C4_Witness ==
    /\ last.op = "ExecutePlugin"
    /\ last.step = "succeeded"
    /\ classes[last.calls[1].obj].src = "handle_only"
    /\ resp.status_code = 200
    /\ DictGet(resp.data, PluginLit.result) = Sample.xy_json

\* C6: after N ExecutePlugin calls that returned 200 and M that returned another
\* status, made one after another on a fresh service, the statistics read
\* total = N + M, successful = N and failed = M, and a HealthCheck reports
\* success_rate = N / (N + M) * 100, or 0 when there has been no call.
C6_Counters ==
    /\ stats.total_executions = returned.ok + returned.other
    /\ stats.successful_executions = returned.ok
    /\ stats.failed_executions = returned.other
    /\ last.op = "HealthCheck" =>
         DictGet(resp.details, Lit.success_rate) =
            (IF Calls > 0 THEN FormatFixed(returned.ok * 100, Calls, 2)
                          ELSE FormatFixed(0, 1, 2)) \o <<"%">>

\* the step is a call of the service (plugin authors' steps count in writes)
LoadStep ==
    writes' = writes

\* the key _load_plugin_with_cache formed in the call c
KeyOf(c) ==
    <<c.path, c.mtime>>

\* the _load_plugin_with_cache calls of the step that got to read the file's mtime
LoadCalls ==
    {last'.calls[i] : i \in {j \in 1..Len(last'.calls) : last'.calls[j].mtime # 0}}

\* C7: whenever the file's modification time differs from the one under which
\* the location's handler was cached and last returned, the next
\* _load_plugin_with_cache call for the location misses, invokes the loader, and
\* what it returns is a type other than every cached one, made from the file's
\* content at the time of the call.
C7_NeverStale ==
    [][LoadStep =>
         \A c \in LoadCalls :
            (seen[c.path] # 0 /\ seen[c.path] # c.mtime) =>
               /\ ~c.hit
               /\ c.loader = 1
               /\ c.ok => /\ c.obj \notin {cache[k] : k \in DOMAIN cache}
                          /\ classes'[c.obj].src = files[c.path].src]_vars

\* C8: _load_plugin_with_cache invokes the loader if and only if the key of the
\* location and the modification time read in the call is absent from the cache;
\* a hit returns the stored type and changes neither the cache nor the loaded
\* classes; a miss invokes the loader once and, when the load succeeds, stores
\* the new type under that key, leaves the other entries alone and returns it.
C8_LoaderIffMiss ==
    [][LoadStep =>
         \A c \in LoadCalls :
            /\ c.loader = 1 <=> KeyOf(c) \notin DOMAIN cache
            /\ c.loader \in {0, 1}
            /\ c.hit <=> KeyOf(c) \in DOMAIN cache
            /\ c.hit => /\ c.ok
                        /\ c.obj = cache[KeyOf(c)]
                        /\ cache' = cache
                        /\ classes' = classes
            /\ (~c.hit /\ c.ok) =>
                  /\ c.obj \notin {cache[k] : k \in DOMAIN cache}
                  /\ cache' = (KeyOf(c) :> c.obj) @@ cache
                  /\ classes'[c.obj].src = files[c.path].src]_vars

\* a hit on the entry of an earlier call, and a miss that stored a second
\* generation of the same location
C8_Witness ==
    /\ Len(last.calls) = 1
    /\ last.calls[1].hit
    /\ last.calls[1].loader = 0
    /\ Cardinality(DOMAIN cache) = 2
    /\ Len(classes) = 2

\* what the call c's caller got to see of a failure with the text t
Propagated(t) ==
    IF last'.op = "ExecutePlugin"
    THEN /\ last'.step = "load_failed"
         /\ resp'.status_code = StatusFor(t)
         /\ resp'.message = "Plugin execution failed"
         /\ resp'.error = t
    ELSE /\ resp'.status = "degraded"
         /\ DictGet(resp'.details, Lit.plugin_test) = Lit.failed_colon \o t

\* C10: when the loader fails, _load_plugin_with_cache propagates the loader's
\* error and leaves the cache as it was, with no entry under the failing key; and
\* a later call at a key where a load has failed invokes the loader again, and
\* succeeds if the file then loads, unless a successful load has stored the key
\* since: the failure is never replayed.
C10_FailureNotCached ==
    [][LoadStep =>
         \A c \in LoadCalls :
            /\ (c.loader = 1 /\ ~c.ok) =>
                  /\ cache' = cache
                  /\ classes' = classes
                  /\ KeyOf(c) \notin DOMAIN cache'
                  /\ Propagated(load_plugin(c.path, files[c.path].src).text)
            /\ (KeyOf(c) \in failed /\ KeyOf(c) \notin DOMAIN cache) =>
                  /\ c.loader = 1
                  /\ c.ok <=> load_plugin(c.path, files[c.path].src).ok
            /\ (KeyOf(c) \in failed /\ KeyOf(c) \in DOMAIN cache) =>
                  /\ c.hit
                  /\ c.ok]_vars

\* a load that failed at a key, retried at the same key after the file was
\* repaired, and this time stored
C10_Witness ==
    /\ Len(last.calls) = 1
    /\ KeyOf(last.calls[1]) \in failed
    /\ last.calls[1].loader = 1
    /\ last.calls[1].ok
    /\ KeyOf(last.calls[1]) \in DOMAIN cache

\* every call has returned
AllReturned ==
    \A w \in Workers : pc[w] = "idle"

\* C5: once N ExecutePlugin calls that succeeded and M that failed, run on
\* several workers in any interleaving, have all returned, the counters read
\* total = N + M, successful = N and failed = M: no update is lost.
C5_NoLostUpdate ==
    AllReturned =>
        /\ stats.total_executions = returned.ok + returned.other
        /\ stats.successful_executions = returned.ok
        /\ stats.failed_executions = returned.other

\* C9 as stated: any two _load_plugin_with_cache calls for the same location,
\* with the same modification time, return the identical class object, also
\* when they ran at the same time on two workers and both found the key missing.
C9_Original ==
    \A a \in loads, b \in loads :
        (a.path = b.path /\ a.mtime = b.mtime) => a.obj = b.obj

\* C9: any two _load_plugin_with_cache calls for the same location, with the
\* same modification time, return the identical class object, provided the cache
\* lookup of neither overlapped a load in flight for that key (a call that found
\* the key missing and has not stored its class yet).
C9_Identical ==
    \A a \in loads, b \in loads :
        (a.path = b.path /\ a.mtime = b.mtime /\ ~a.raced /\ ~b.raced) => a.obj = b.obj

\* two calls under way at the same time on two workers got the same class, one
\* by loading and storing it, the other from the cache afterwards
C9_Witness ==
    \E a \in loads, b \in loads :
        /\ a.w # b.w
        /\ a.path = b.path /\ a.mtime = b.mtime
        /\ ~a.raced /\ ~b.raced
        /\ ~a.hit /\ b.hit
        /\ a.obj = b.obj
        /\ pc[a.w] # "idle" /\ pc[b.w] # "idle"

\* C11: after any interleaving of concurrent _load_plugin_with_cache calls, for
\* the same or for different keys, every cache entry stands under the key of its
\* file (one entry per location and modification time) and is a class loaded from
\* that file, and a worker about to look a key up can always take that step,
\* whatever load is in progress on another worker.
C11_CacheSound ==
    /\ \A k \in DOMAIN cache :
          /\ files[k[1]] # Absent
          /\ k[2] = files[k[1]].mtime
          /\ cache[k] \in 1..Len(classes)
          /\ classes[cache[k]].src = files[k[1]].src
    /\ Cardinality(DOMAIN cache) <= Cardinality({p \in Paths : files[p] # Absent})
    /\ \A w \in Workers : pc[w] = "probe" => ENABLED Worker_Probe(w)

\* one worker is loading b.py, whose key is not stored yet, another has just
\* got a.py from the cache
C11_Witness ==
    \E v \in Workers, w \in Workers :
        /\ pc[v] = "store" /\ loc[v].path = PathJoin(DefaultDir, F_b)
        /\ pc[w] = "total_r" /\ loc[w].path = PathJoin(ExtraDir, F_a) /\ loc[w].success
        /\ DOMAIN cache = {<<PathJoin(ExtraDir, F_a), 1>>}

\* C12: no operation of the service removes or replaces a cache entry; over
\* ExecutePlugin, ListPlugins, GetPluginInfo and HealthCheck calls the set of
\* cache keys only grows, so the generations of a modified file pile up
C12_CacheOnlyGrows ==
    [][\A k \in DOMAIN cache : k \in DOMAIN cache' /\ cache'[k] = cache[k]]_vars

\* two generations of one file are cached, the older one cached before the file
\* was rewritten, and a ListPlugins call has just served the newer one
C12_Witness ==
    /\ last.op = "ListPlugins"
    /\ \E c \in {last.calls[i] : i \in 1..Len(last.calls)} :
          /\ c.ok /\ c.mtime = files[c.path].mtime
          /\ <<c.path, c.mtime>> \in DOMAIN cache
          /\ \E k \in DOMAIN cache : k[1] = c.path /\ k[2] # c.mtime

\* the directories a request searches, in priority order: the default one, the
\* environment's, then the service's plugin_dirs
SearchOrder ==
    get_plugin_paths(EnvPlugins, NoText) \o PluginDirs

RECURSIVE FirstHolding(_, _, _)
\* the file of plugin `name` in the earliest directory of dirs that holds one
FirstHolding(fs, dirs, name) ==
    IF dirs = <<>> THEN NoText
    ELSE IF IsDir(Head(dirs)) /\ fs[PathJoin(Head(dirs), name \o FsLit.dot_py)] # Absent
    THEN PathJoin(Head(dirs), name \o FsLit.dot_py)
    ELSE FirstHolding(fs, Tail(dirs), name)

\* C13: a name that exists in several searched directories resolves to the file
\* in the earliest directory in priority order (default, environment, then
\* plugin_dirs); here for ExecutePlugin calls on directories nobody has changed
\* since the service started
C13_EarliestDirectoryWins ==
    [][(ExecuteStep /\ writes = 0 /\ FirstHolding(files, SearchOrder, last'.plugin_name) # NoText)
          => /\ last'.calls # NoCall
             /\ last'.calls[1].path = FirstHolding(files, SearchOrder, last'.plugin_name)]_vars

\* C14: every ExecutePlugin request resolves the name against what the searched
\* directories hold at the time of the request: a name whose file is in one of
\* them (also one added after the service started) is found, and a name whose
\* file is in none (also one removed since) is answered 404 "Plugin not found"
C14_ResolvesCurrentContents ==
    [][ExecuteStep =>
         IF FirstHolding(files, SearchOrder, last'.plugin_name) # NoText
         THEN last'.step # "not_found" /\ last'.calls # NoCall
         ELSE last'.step = "not_found" /\ resp'.status_code = 404]_vars

\* C15: building the discovery map of a request leaves get_plugins() alone:
\* after any calls, the dict get_plugins() returns holds only files of the
\* default and environment directories, never a file of the service's plugin_dirs
C15_ScanUntouched ==
    \A i \in 1..Len(lru) :
        \E j \in 1..Len(get_plugin_paths(EnvPlugins, NoText)) :
            StartsWith(lru[i][2], get_plugin_paths(EnvPlugins, NoText)[j] \o <<"/">>)

\* C16: when resolving the plugin type fails (the file cannot be read, its
\* source cannot be loaded, or it holds no plugin class), ExecutePlugin returns
\* 500 "Plugin execution failed" with the load error's text as error and records
\* exactly one failed execution
C16_LoadFailed ==
    [][(ExecuteStep /\ last'.step = "load_failed") =>
          /\ resp'.status_code = 500
          /\ resp'.message = "Plugin execution failed"
          /\ resp'.error = LoadDirect(files, last'.calls[1].path).text
          /\ OneFailureRecorded]_vars

\* the messages of the envelopes ExecutePlugin builds
Envelopes == {"success", "Plugin not found", "Plugin execution failed"}

\* C17: every ExecutePlugin invocation ends by returning an envelope, whatever
\* the plugin's code raises: no error of an invocation leaves ExecutePlugin
C17_AlwaysEnvelope ==
    [][ExecuteStep => (last'.step # "escaped" /\ resp'.message \in Envelopes)]_vars

\* C18: one ExecutePlugin invocation goes Received, Resolving, one of NotFound,
\* LoadFailed or Invoking, then one of ExecutionFailed or Succeeded, then
\* Reported, and never back: it ends in exactly one of the four outcomes and
\* records it once; a NotFound call loads nothing, a LoadFailed call has invoked
\* the loader once and no plugin code, the other two have resolved the class
\* with at most one loader run before entering the capability, once
C18_OnePass ==
    [][ExecuteStep =>
          /\ last'.step \in {"not_found", "load_failed", "execution_failed", "succeeded"}
          /\ stats'.total_executions = stats.total_executions + 1
          /\ (last'.step = "succeeded") = (resp'.status_code = 200)
          /\ last'.step = "not_found" =>
                last'.calls = NoCall /\ last'.called = <<>> /\ classes' = classes
          /\ last'.step = "load_failed" =>
                /\ Len(last'.calls) = 1 /\ last'.calls[1].loader = 1 /\ ~last'.calls[1].ok
                /\ last'.called = <<>>
          /\ last'.step \in {"execution_failed", "succeeded"} =>
                /\ Len(last'.calls) = 1 /\ last'.calls[1].ok /\ last'.calls[1].loader <= 1
                /\ Len(last'.called) <= 1]_vars

\* the step is an ExecutePlugin call with an empty payload and one of the four
\* methods for a name whose file is in a searched directory, the file loads, and
\* constructing the plugin and calling the capability the method selects returns
RanWithoutRaising ==
    /\ ExecuteStep
    /\ last'.data = <<>>
    /\ \E i \in 1..4 : last'.http_method = AllMethods[i]
    /\ FirstHolding(files, SearchOrder, last'.plugin_name) # NoText
    /\ last'.calls # NoCall
    /\ last'.calls[1].ok
    /\ ~ExecutePluginSafely(ClassOf(classes'[last'.calls[1].obj]), <<>>, last'.http_method).raised

\* C19: for every name of the discovery map and every method of GET, POST, PUT
\* and DELETE, ExecutePlugin with an empty payload returns 200 "success"
\* whenever the capability the method selects does not raise
C19_DiscoveredSucceeds ==
    [][RanWithoutRaising => (resp'.status_code = 200 /\ resp'.message = "success")]_vars

\* C20: while one ExecutePlugin call is inside a capability that never returns,
\* the calls on the other workers go on: a free worker can take an ExecutePlugin,
\* ListPlugins or HealthCheck call, and a call under way can take its next step
\* (cache lookup, load and plugin run, statistics, return), whatever it is
C20_OthersProceed ==
    \A w \in Workers : pc[w] = "running" =>
        \A v \in Workers \ {w} :
            /\ pc[v] = "idle" =>
                  /\ \A n \in {N_a, N_b} : \E order \in ListingOrders(files) :
                        ENABLED Worker_Start(v, n, PluginLit.GET, <<>>, 1, order)
                  /\ \E order \in ListingOrders(files) :
                        ENABLED (Free(v) /\ ListPlugins(NoText, order))
                  /\ \E order \in ListingOrders(files) :
                        ENABLED (Free(v) /\ HealthCheck(order))
            /\ pc[v] = "probe" => ENABLED Worker_Probe(v)
            /\ pc[v] = "store" => ENABLED Worker_Store(v)
            /\ pc[v] \in {"total_r", "time_r", "count_r"} => ENABLED Worker_StatsRead(v)
            /\ pc[v] \in {"total_w", "time_w", "count_w"} => ENABLED Worker_StatsWrite(v)

\* one worker is inside the capability of a.py for good, and since then another
\* worker has run b.py and returned its 200 response
C20_Witness ==
    \E w \in Workers :
        /\ pc[w] = "running" /\ loc[w].plugin_name = N_a
        /\ \A v \in Workers \ {w} : pc[v] = "idle"
        /\ returned.ok = 1
        /\ resp.status_code = 200
        /\ \E r \in loads : r.w # w /\ r.path = PathJoin(DefaultDir, F_b)
                               /\ \E q \in loads : q.w = w /\ q.obj < r.obj

\* the last call was a ListPlugins call that returned a response
ListReturned ==
    last.op = "ListPlugins" /\ last.step # "escaped"

\* C21: the entries of every ListPlugins response are in strictly ascending order
\* of name (so no name occurs twice), and total_count is the number of entries
C21_SortedDistinctCounted ==
    ListReturned =>
        /\ \A i, j \in 1..Len(resp.plugins) :
              i < j => StrLess(resp.plugins[i].name, resp.plugins[j].name)
        /\ resp.total_count = Len(resp.plugins)

\* a response of two entries although the discovery map held b before a
C21_Witness ==
    /\ ListReturned
    /\ Len(resp.plugins) = 2
    /\ Len(lru) = 2 /\ lru[1][1] = N_b /\ lru[2][1] = N_a

\* the entries of the last response that carry the name
EntriesNamed(name) ==
    {k \in 1..Len(resp.plugins) : resp.plugins[k].name = name}

\* the last call's load of the file at path raised
LoadRaised(path) ==
    \E c \in 1..Len(last.calls) : last.calls[c].path = path /\ ~last.calls[c].ok

\* C22: a ListPlugins call returns exactly one entry for every plugin of the
\* discovery map whose name contains the filter (every plugin when the filter is
\* empty), and the entry of a plugin whose load failed has is_available = false,
\* no supported methods and a "Failed to load: ..." description
C22_EveryMatchListed ==
    last.op = "ListPlugins" =>
        /\ last.step # "escaped"
        /\ \A i \in 1..Len(lru) :
              Contains(lru[i][1], last.plugin_name) =>
                 /\ Cardinality(EntriesNamed(lru[i][1])) = 1
                 /\ \A k \in EntriesNamed(lru[i][1]) :
                       LoadRaised(lru[i][2]) =>
                          /\ ~resp.plugins[k].is_available
                          /\ resp.plugins[k].supported_methods = <<>>
                          /\ StartsWith(resp.plugins[k].description, InfoLit.failed_to_load)

\* the class ListPlugins loaded for the k-th entry of the last response
EntryClass(k) ==
    ClassOf(classes[cache[<<resp.plugins[k].path, files[resp.plugins[k].path].mtime>>]])

\* the methods among GET, POST, PUT, DELETE the class defines itself
Overridden(cls) ==
    {AllMethods[i] : i \in {j \in 1..4 : MethodAttr(AllMethods[j]) \in DOMAIN cls.methods}}

\* the methods the k-th entry of the last response reports
Reported(k) ==
    {resp.plugins[k].supported_methods[i] : i \in 1..Len(resp.plugins[k].supported_methods)}

\* C23: every available entry of a ListPlugins response reports exactly the
\* methods the plugin class overrides, or all four when it overrides none, each
\* once; so the reported set of an available plugin is never empty
C23_SupportedMethods ==
    ListReturned =>
        \A k \in 1..Len(resp.plugins) :
            resp.plugins[k].is_available =>
               /\ Reported(k) = IF Overridden(EntryClass(k)) = {}
                                THEN {PluginLit.GET, PluginLit.POST, PluginLit.PUT, PluginLit.DELETE}
                                ELSE Overridden(EntryClass(k))
               /\ Len(resp.plugins[k].supported_methods) = Cardinality(Reported(k))
               /\ Reported(k) # {}

\* one response lists a plugin that overrides only handle with all four methods
\* and a plugin that overrides get and put with GET and PUT
C23_Witness ==
    /\ ListReturned
    /\ \E k \in 1..Len(resp.plugins) :
          /\ resp.plugins[k].is_available
          /\ Overridden(EntryClass(k)) = {}
          /\ resp.plugins[k].supported_methods = AllMethods
    /\ \E k \in 1..Len(resp.plugins) :
          /\ resp.plugins[k].is_available
          /\ resp.plugins[k].supported_methods = <<PluginLit.GET, PluginLit.PUT>>

\* the names an unfiltered ListPlugins call returns in the current state, the
\* directories listing their files in the given order
ListedNames(order) ==
    Bind(ListPluginsResult(files, lru, cache, classes, stats, NoText, order),
         LAMBDA o : IF o.step = "escaped" THEN {}
                    ELSE {o.resp.plugins[k].name : k \in 1..Len(o.resp.plugins)})

\* C24: GetPluginInfo(name) answers found = true exactly when an unfiltered
\* ListPlugins call at the same moment returns an entry of that name, and
\* found = false comes with an empty plugin payload
C24_FoundIffListed ==
    last.op = "GetPluginInfo" =>
        /\ last.step # "escaped"
        /\ \A order \in ListingOrders(files) :
              resp.found <=> last.plugin_name \in ListedNames(order)
        /\ ~resp.found => resp.plugin = NoPluginInfo

\* an unfiltered ListPlugins call in the current state returns an entry of the
\* name with the supported methods, description and availability of info
ListedAlike(order, name, info) ==
    Bind(ListPluginsResult(files, lru, cache, classes, stats, NoText, order),
         LAMBDA o :
            /\ o.step # "escaped"
            /\ \E k \in 1..Len(o.resp.plugins) :
                  /\ o.resp.plugins[k].name = name
                  /\ o.resp.plugins[k].supported_methods = info.supported_methods
                  /\ o.resp.plugins[k].description = info.description
                  /\ o.resp.plugins[k].is_available = info.is_available)

\* C25: when GetPluginInfo finds the name, its supported_methods, description
\* and is_available are those of the plugin's entry in an unfiltered ListPlugins
\* response of that moment
C25_InfoAsListed ==
    (last.op = "GetPluginInfo" /\ last.step # "escaped" /\ resp.found) =>
        \A order \in ListingOrders(files) :
            ListedAlike(order, last.plugin_name, resp.plugin)

\* the last call was a HealthCheck call that returned a response
HealthReturned ==
    last.op = "HealthCheck" /\ last.step # "escaped"

\* the canary load of the last HealthCheck call raised
CanaryFailed ==
    last.calls # NoCall /\ ~last.calls[1].ok

\* total invocations > 10 and success rate < 80%
LowRate ==
    stats.total_executions > 10
        /\ stats.successful_executions * 100 < 80 * stats.total_executions

\* C26: every HealthCheck call (discovery never raises in a constructed service)
\* returns "degraded" with the message "No plugins found" when no plugin is
\* discovered, "degraded" when the canary load fails or when more than 10
\* invocations were counted with a success rate below 80%, and "healthy" in every
\* other case
C26_Verdict ==
    last.op = "HealthCheck" =>
        /\ last.step # "escaped"
        /\ resp.status = IF Len(lru) = 0 \/ CanaryFailed \/ LowRate
                         THEN "degraded" ELSE "healthy"
        /\ Len(lru) = 0 => resp.message = Lit.no_plugins

\* the keys the details of a HealthCheck response are to hold
DetailKeys ==
    {Lit.plugin_count, Lit.total_executions, Lit.successful_executions,
     Lit.failed_executions, Lit.success_rate, Lit.avg_execution_time, Lit.cache_size}

\* C27: the details of every HealthCheck response, whatever its status, hold the
\* plugin count, the total, successful and failed counters, the success rate,
\* the average execution time and the cache size
C27_DetailsComplete ==
    HealthReturned =>
        /\ DetailKeys \subseteq DictKeySet(resp.details)
        /\ DictGet(resp.details, Lit.plugin_count) = IntStr(Len(lru))
        /\ DictGet(resp.details, Lit.total_executions) = IntStr(stats.total_executions)
        /\ DictGet(resp.details, Lit.successful_executions) = IntStr(stats.successful_executions)
        /\ DictGet(resp.details, Lit.failed_executions) = IntStr(stats.failed_executions)
        /\ DictGet(resp.details, Lit.cache_size) = IntStr(Cardinality(DOMAIN cache))

\* C28: HealthCheck answers "unhealthy" only when building the discovery map
\* raises, which it never does in a constructed service: every call returns a
\* response, and a failing canary load yields "degraded"
C28_NeverUnhealthy ==
    last.op = "HealthCheck" =>
        /\ last.step # "escaped"
        /\ resp.status # "unhealthy"
        /\ CanaryFailed => resp.status = "degraded"

\* the statements of the source that define a plugin class
PluginStatements(src) ==
    {i \in 1..Len(SourceOf(src).defs) : IsPluginClass(SourceOf(src).defs[i])}

\* the file's source can be read and executed and defines a plugin class
Loadable(src) ==
    SourceOf(src).exec_error = NoText /\ PluginStatements(src) # {}

\* C29: load_plugin fails exactly when the file cannot be read or executed or its
\* top-level definitions hold no plugin class, and every class it returned is
\* the first plugin class of its file in declaration order
C29_FirstDeclared ==
    /\ \A c \in 1..Len(last.calls) :
          last.calls[c].loader = 1 =>
             (last.calls[c].ok <=> Loadable(files[last.calls[c].path].src))
    /\ \A o \in 1..Len(classes) :
          /\ classes[o].def \in PluginStatements(classes[o].src)
          /\ \A i \in PluginStatements(classes[o].src) : classes[o].def <= i

PathsReturned ==
    last.op = "get_plugin_paths"

\* C30: get_plugin_paths returns the default directory first, then the
\* directories of WEBHOOK_BRIDGE_SERVER_PLUGINS in the order given, then the
\* extra directory, which is appended only when one is given and the list does
\* not hold it already.
C30_SearchList ==
    PathsReturned =>
        LET dirs == last.data
            extra_path == last.plugin_name
            listed == <<DefaultDir>> \o dirs
            held == \E i \in 1..Len(listed) : listed[i] = extra_path
        IN  resp = IF extra_path # NoText /\ ~held THEN listed \o <<extra_path>> ELSE listed

\* two directories in the environment and an extra directory that is the
\* second of them: the list holds it once
C30_Witness ==
    /\ PathsReturned
    /\ Len(last.data) = 2
    /\ last.data[1] # last.data[2]
    /\ last.plugin_name = last.data[2]
    /\ DefaultDir \notin {last.data[1], last.data[2]}
    /\ Len(resp) = 3

\* <stem> of a file named <stem>.py
Stem(f) ==
    SubSeq(f, 1, Len(f) - Len(FsLit.dot_py))

\* the files directly in dir that are named <stem>.py with a stem other than
\* __init__
PluginFiles(fs, dir) ==
    {f \in Filenames : /\ fs[PathJoin(dir, f)] # Absent
                       /\ ~Contains(f, FsLit.slash)
                       /\ EndsWith(f, FsLit.dot_py)
                       /\ Stem(f) # FsLit.init}

\* C31: every file <stem>.py directly in a searched directory, __init__.py
\* excepted, is discovered under the name <stem>, by the default/environment
\* scan (the map a fresh service holds) and by the plugin_dirs scan (the map
\* after a call that ran _get_plugins_with_extra_dirs) alike, and no file of a
\* subdirectory is discovered.
C31_EveryPyFileDiscovered ==
    /\ last.op = "" =>
          \A f \in PluginFiles(files, DefaultDir) :
              DictHas(lru, Stem(f)) /\ DictGet(lru, Stem(f)) = PathJoin(DefaultDir, f)
    /\ HealthReturned =>
          \A f \in PluginFiles(files, ExtraDir) :
              DictHas(lru, Stem(f)) /\ DictGet(lru, Stem(f)) = PathJoin(ExtraDir, f)
    /\ \A i \in 1..Len(lru) : \A d \in Directories : lru[i][2] # PathJoin(d, F_sub_c)

\* the names the default/environment scan finds in the directory dir
GlobNames(fs, dir) ==
    LET listing == CHOOSE o \in Orderings(Listing(fs, dir)) : TRUE
    IN  DictKeySet(ScanGlob(<<>>, dir, listing))

\* the plugins the plugin_dirs scan finds in the directory dir
ListdirPlugins(fs, dir) ==
    LET listing == CHOOSE o \in Orderings(Listing(fs, dir)) : TRUE
    IN  DiscoverLoop(<<>>, dir, listing)

\* os.path.exists(path) and not os.path.isdir(path)
IsFile(fs, path) ==
    path \in Paths /\ fs[path] # Absent

\* C32: a searched path that does not exist or is no directory is skipped
\* without raising, and discovery still returns the plugins of the other
\* searched directories: a fresh service holds every plugin of the default
\* directory whatever the environment variable names, and a call that runs
\* the plugin_dirs scan over a missing path, a file and /x answers and
\* discovers every plugin of /x.
C32_BadPathSkipped ==
    /\ last.op = "" => \A n \in GlobNames(files, DefaultDir) : DictHas(lru, n)
    /\ last.op = "HealthCheck" =>
          /\ HealthReturned
          /\ resp.status # "unhealthy"
          /\ \A n \in DictKeySet(ListdirPlugins(files, ExtraDir)) :
                DictHas(lru, n) /\ DictGet(lru, n) = DictGet(ListdirPlugins(files, ExtraDir), n)

\* plugin_dirs names a missing path, then a.py of the default directory, which
\* exists and is a file, then /x, whose plugin a is discovered
C32_Witness ==
    /\ HealthReturned
    /\ ~IsDir(PluginDirs[1]) /\ ~IsFile(files, PluginDirs[1])
    /\ IsFile(files, PluginDirs[2])
    /\ files[PathJoin(ExtraDir, F_a)] # Absent
    /\ DictGet(lru, N_a) = PathJoin(ExtraDir, F_a)

\* the last request reached discovery: a plugin directory was configured
RestDiscovered ==
    last.op = "rest" /\ last.step # "not_configured"

\* the JSON envelope of the response sent
RestBody ==
    resp.body.v

\* C33: a REST request for a plugin name that discovery does not contain is
\* answered with HTTP 404 and an envelope whose status_code is 404 and whose
\* message contains "not found", and no plugin file is loaded and no plugin
\* method runs.
C33_RestNotFound ==
    (RestDiscovered /\ ~DictHas(lru, last.plugin_name)) =>
        /\ ~resp.raised
        /\ resp.http_status = 404
        /\ DictGet(RestBody, RestLit.status_code) = VInt(404)
        /\ Contains(Lower(DictGet(RestBody, RestLit.message).v), Lit.not_found)
        /\ last.calls = NoCall
        /\ last.called = <<>>

\* discovery holds other plugins, the requested name zz is not among them
C33_Witness ==
    /\ RestDiscovered
    /\ last.plugin_name = N_zz
    /\ lru # <<>>
    /\ ~DictHas(lru, N_zz)
    /\ resp.http_status = 404

\* the class load_plugin finds in the file the name was discovered under
RestClass ==
    LET path == DictGet(lru, last.plugin_name)
    IN  SourceOf(files[path].src).defs[load_plugin(path, files[path].src).def].cls

\* the last request was a POST for a discovered plugin whose file loads and
\* whose class defines run and nothing else
RestPostRunOnly ==
    /\ RestDiscovered
    /\ last.http_method = PluginLit.POST
    /\ DictHas(lru, last.plugin_name)
    /\ files[DictGet(lru, last.plugin_name)] # Absent
    /\ load_plugin(DictGet(lru, last.plugin_name), files[DictGet(lru, last.plugin_name)].src).ok
    /\ DOMAIN RestClass.methods = {Attr.run}

\* C34: POSTing data to /plugin/<name> for a discovered plugin whose class
\* overrides only run (returning its input data) is answered with HTTP 200,
\* message "success", data.plugin equal to the name and
\* data.plugin_data.input_data equal to the posted data.
C34_RestRunOnlySucceeds ==
    (RestPostRunOnly /\ ValueEncodable(VDict([i \in 1..Len(last.data) |->
                                                <<last.data[i][1], VStr(last.data[i][2])>>]))) =>
        /\ ~resp.raised
        /\ resp.http_status = 200
        /\ DictGet(RestBody, RestLit.message) = VStr(RestLit.success)
        /\ DictGet(DictGet(RestBody, RestLit.data).v, RestLit.plugin) = VStr(last.plugin_name)
        /\ DictGet(DictGet(DictGet(RestBody, RestLit.data).v, RestLit.plugin_data).v,
                   PluginLit.input_data)
              = VDict([i \in 1..Len(last.data) |-> <<last.data[i][1], VStr(last.data[i][2])>>])

StatsFields ==
    {"total_executions", "total_execution_time", "successful_executions", "failed_executions"}

\* C35: no counter of the execution statistics ever decreases or is reset, in
\* any step of a running service, concurrent ExecutePlugin calls included.
C35_CountersNeverDecrease ==
    [][\A f \in StatsFields : stats'[f] >= stats[f]]_vars

\* C36: each ExecutePlugin call updates the statistics exactly once: total
\* grows by exactly 1 and exactly one of successful and failed grows by 1,
\* also when an error is raised after the success was recorded, while the 200
\* response is built.
C36_UpdatedOnce ==
    [][ExecuteStep =>
          /\ stats'.total_executions = stats.total_executions + 1
          /\ \/ /\ stats'.successful_executions = stats.successful_executions + 1
                /\ stats'.failed_executions = stats.failed_executions
             \/ OneFailureRecorded]_vars

\* the last HealthCheck call answered "degraded" for a low success rate
LowRateReported ==
    resp.status = "degraded" /\ StartsWith(resp.message, Lit.low_rate)

\* C37: when no ExecutePlugin call has ever failed, a HealthCheck call that runs
\* while other threads serve ExecutePlugin calls never answers "degraded" with
\* a low success rate, and the counters it reads satisfy
\* successful + failed = total.
C37_NoSpuriousLowRate ==
    (Probed /\ returned.other = 0 /\ stats.failed_executions = 0) =>
        /\ ~LowRateReported
        /\ stats.successful_executions + stats.failed_executions = stats.total_executions

\* the keyword hints of the except branch in their order of precedence, each
\* with the status it selects
HintRanks ==
    <<[words |-> {Lit.not_found}, status |-> 404],
      [words |-> {Lit.permission, Lit.access}, status |-> 403],
      [words |-> {Lit.timeout}, status |-> 408]>>

\* the ranks whose hint the lower-cased text t holds
RanksHit(t) ==
    {i \in DOMAIN HintRanks : \E w \in HintRanks[i].words : Contains(t, w)}

\* the number of hints (of different ranks) an error text holds
HintsIn(error_msg) ==
    Cardinality(RanksHit(Lower(error_msg)))

\* C38: the status of a failed execution is a function of the lower-cased
\* exception text alone: the status of the highest-ranked hint the text holds,
\* "not found" (404) before "permission"/"access" (403) before "timeout" (408),
\* and 500 when it holds none.
C38_StatusByPrecedence ==
    (last.op = "ExecutePlugin" /\ last.step = "execution_failed") =>
        LET hit == RanksHit(Lower(resp.error))
        IN  resp.status_code =
                IF hit = {} THEN 500
                ELSE HintRanks[CHOOSE i \in hit : \A j \in hit : i <= j].status

\* a failed execution whose text holds two hints got the status of the first
C38_Witness ==
    /\ last.op = "ExecutePlugin"
    /\ last.step = "execution_failed"
    /\ HintsIn(resp.error) = 2
    /\ resp.error = E_access_nf
    /\ resp.status_code = 404

\* the step is a ListPlugins, GetPluginInfo or HealthCheck call of SpecApi
ListStepTaken ==
    \E f \in Filters, order \in ListingOrders(files) : ListPlugins(f, order)

InfoStepTaken ==
    \E n \in ApiNames : GetPluginInfo(n)

HealthStepTaken ==
    \E order \in ListingOrders(files) : HealthCheck(order)

\* C39: a ListPlugins, GetPluginInfo or HealthCheck call leaves the execution
\* statistics as they were, a GetPluginInfo call leaves the plugin cache as it
\* was, and a step that changes the statistics is an ExecutePlugin call.
C39_ReadOnlyCalls ==
    [][/\ (ListStepTaken \/ InfoStepTaken \/ HealthStepTaken) => stats' = stats
       /\ InfoStepTaken => cache' = cache
       /\ stats' # stats => ExecuteStep /\ last'.op = "ExecutePlugin"]_vars

\* GetPluginInfo has loaded a plugin that no call has cached, after an
\* ExecutePlugin call was counted
C39_Witness ==
    /\ last.op = "GetPluginInfo"
    /\ resp.found
    /\ resp.plugin.is_available
    /\ cache = <<>>
    /\ stats.total_executions = 1

\* the last request was for a discovered plugin whose file loads and whose
\* class defines handle and a run that delegates to BasePlugin.run
RestRunDelegates ==
    /\ RestDiscovered
    /\ DictHas(lru, last.plugin_name)
    /\ files[DictGet(lru, last.plugin_name)] # Absent
    /\ load_plugin(DictGet(lru, last.plugin_name), files[DictGet(lru, last.plugin_name)].src).ok
    /\ Overrides(RestClass, Attr.handle)
    /\ Overrides(RestClass, Attr.run)
    /\ RestClass.methods[Attr.run] = "super_run"

\* C40: executing a plugin whose run override delegates to BasePlugin.run
\* ends without a RecursionError: the request is answered 200 "success" and
\* the plugin's handler has run.
C40_DelegatingRunReturns ==
    (RestRunDelegates /\ ValueEncodable(VDict([i \in 1..Len(last.data) |->
                                                 <<last.data[i][1], VStr(last.data[i][2])>>]))) =>
        /\ ~resp.raised
        /\ resp.http_status = 200
        /\ DictGet(RestBody, RestLit.message) = VStr(RestLit.success)
        /\ DictGet(DictGet(RestBody, RestLit.data).v, RestLit.details) # VStr(PyText.recursion)
        /\ last.step = "ok"

=========================================================================
